---- MODULE Spec2Model ----
(***************************************************************************)
(* Model of the trip-planner workflow of langgraphplayground: one thread   *)
(* of the compiled StateGraph (src/src/agent/trip_graph.py), the           *)
(* checkpoints its checkpointer keeps, and the caller-facing handlers of   *)
(* src/src/agent/webapp.py and src/src/agent/state_manager.py that drive   *)
(* it (run, resume, update_state, resume_from).                            *)
(*                                                                         *)
(* Text produced by the language model and the search provider is          *)
(* abstracted to one token per field; a model call may fail, which is the  *)
(* input failNode of the handlers that execute nodes.                      *)
(***************************************************************************)
EXTENDS Integers, Sequences, FiniteSets, TLC

VARIABLES store, lastOp, stream, other, thread, content, hashSeed, invoked

vars == <<store, lastOp, stream, other, thread, content, hashSeed, invoked>>

\* the part of the state that belongs to tool-call detection and tool
\* execution (src/src/agent/graph.py, src/src/agent/tools.py): the text under
\* detection, the string-hash seed of the running interpreter, and the log
\* of tool invocations
tooling == <<content, hashSeed, invoked>>

(* ------------------------------------------------------------------ *)
(* Bounds of the model                                                  *)
(* ------------------------------------------------------------------ *)

\* checkpoints kept for the thread
MaxCkpts == 11

\* checkpoints that leave the straight run of the graph: written by
\* graph.update_state (edits and rejections), written for an input on a
\* thread that has checkpoints, or branching off an earlier checkpoint
MaxDetours == 1

(* ------------------------------------------------------------------ *)
(* Graph definition: trip_graph.py, TripPlannerGraph._build_graph       *)
(* ------------------------------------------------------------------ *)

START == "__start__"

END == "__end__"

Nodes == {"planner", "travel_plan", "generate", "reflect", "travel_critique"}

\* interrupt_before of the graph compiled for HITL
InterruptBefore == {"planner", "generate", "reflect"}

\* max_revisions written by a run that starts the thread
InitialMaxRevisions == 2

\* messages the caller may send with a run
Messages == {"", "trip"}

\* no input: graph.invoke(None, config)
None == [none |-> TRUE]

(* ------------------------------------------------------------------ *)
(* State reducer: TripState                                             *)
(* ------------------------------------------------------------------ *)

\* the fields annotated with operator.add
Accumulate == {"messages", "count"}

\* the value of the channels of a thread that has no checkpoint
EmptyChannels == [messages |-> <<>>, count |-> 0]

\* a reducer that sums nothing: count is replaced
Combine_ReplacesCount(f, old, new) ==
    IF f = "messages" THEN old \o new ELSE new

\* a reducer that replaces the messages
Combine_ReplacesMessages(f, old, new) ==
    IF f = "count" THEN old + new ELSE new

Combine(f, old, new) ==
    IF f = "messages" THEN old \o new
    ELSE IF f = "count" THEN old + new
    ELSE new

\* a reducer that drops the replace-policy fields the update leaves out
Merge_DropsAbsent(s, u) ==
    [f \in (DOMAIN s \cap Accumulate) \cup (DOMAIN u) |->
        IF f \in DOMAIN u
        THEN IF f \in DOMAIN s /\ f \in Accumulate
             THEN Combine(f, s[f], u[f])
             ELSE u[f]
        ELSE s[f]]

\* a reducer that also sums revision_number
Merge_SumsRevision(s, u) ==
    [f \in (DOMAIN s) \cup (DOMAIN u) |->
        IF f \in DOMAIN u
        THEN IF f \in DOMAIN s /\ f \in Accumulate
             THEN Combine(f, s[f], u[f])
             ELSE IF f \in DOMAIN s /\ f = "revision_number"
                  THEN s[f] + u[f]
                  ELSE u[f]
        ELSE s[f]]

Merge(s, u) ==
    [f \in (DOMAIN s) \cup (DOMAIN u) |->
        IF f \in DOMAIN u
        THEN IF f \in DOMAIN s /\ f \in Accumulate
             THEN Combine(f, s[f], u[f])
             ELSE u[f]
        ELSE s[f]]

Has(s, f) == f \in DOMAIN s

\* dict.get(key, default)
Get(s, f, default) == IF Has(s, f) THEN s[f] ELSE default

(* ------------------------------------------------------------------ *)
(* Step functions: the partial update each node returns                 *)
(* ------------------------------------------------------------------ *)

\* what self.tavily.search(query=query, max_results=2) does for one query:
\* it raises, or it returns a response with the contents of its results
SearchError == [raised |-> TRUE]

Found(results) == [raised |-> FALSE, results |-> results]

\* the searches of a node: the contents found, or the exception
\* that left the loop
Searched(sources) == [raised |-> FALSE, content |-> sources]

\* a search outside try ... except
SearchQuery_Uncaught(sources, response) ==
    IF response.raised THEN [raised |-> TRUE]
    ELSE Searched(sources \o response.results)

\* the body of the loop over the queries: the search of one query and the
\* results it appends; an exception is logged and the loop goes on
SearchQuery(sources, response) ==
    IF response.raised THEN Searched(sources)
    ELSE Searched(sources \o response.results)

\* "for query in queries_obj.queries[:limit]", responses[i] being what the
\* search of the i-th query does
RECURSIVE SearchAll(_, _)
SearchAfter(found, responses) ==
    IF found.raised THEN found ELSE SearchAll(found.content, responses)

SearchAll(sources, responses) ==
    IF responses = <<>> THEN Searched(sources)
    ELSE SearchAfter(SearchQuery(sources, Head(responses)), Tail(responses))

\* queries[:limit]
FirstOf(queries, limit) ==
    SubSeq(queries, 1, IF Len(queries) < limit THEN Len(queries) ELSE limit)

\* travel_plan_node with the queries the model wrote and the responses of
\* the searches of the first three
TravelPlanUpdate(queries, found) ==
    IF found.raised THEN found
    ELSE [raised |-> FALSE,
          update |-> [content |-> found.content, queries |-> queries,
                      count |-> 1, messages |-> <<"travel_plan">>]]

travel_plan_searching(s, queries, responses) ==
    TravelPlanUpdate(queries, SearchAll(<<>>, FirstOf(responses, 3)))

\* travel_critique_node with the responses of the searches of the first two
\* queries
TravelCritiqueUpdate(found) ==
    IF found.raised THEN found
    ELSE [raised |-> FALSE,
          update |-> [content |-> found.content, count |-> 1,
                      messages |-> <<"travel_critique">>]]

travel_critique_searching(s, queries, responses) ==
    TravelCritiqueUpdate(SearchAll(Get(s, "content", <<>>),
                                   FirstOf(responses, 2)))

plan_node(s) ==
    [plan |-> "plan", count |-> 1, messages |-> <<"planner">>]

\* travel_plan_node when the model writes one query and its search finds
\* one source
travel_plan_node(s) ==
    travel_plan_searching(s, <<"q">>, <<Found(<<"src">>)>>).update

generation_node(s) ==
    [draft |-> "draft", revision_number |-> Get(s, "revision_number", 0) + 1,
     count |-> 1, messages |-> <<"generate">>]

reflection_node(s) ==
    [critique |-> "critique", count |-> 1, messages |-> <<"reflect">>]

\* travel_critique_node when the model writes one query and its search
\* finds one source
travel_critique_node(s) ==
    travel_critique_searching(s, <<"q">>, <<Found(<<"src">>)>>).update

StepUpdate(n, s) ==
    CASE n = "planner" -> plan_node(s)
      [] n = "travel_plan" -> travel_plan_node(s)
      [] n = "generate" -> generation_node(s)
      [] n = "reflect" -> reflection_node(s)
      [] n = "travel_critique" -> travel_critique_node(s)

\* the state keys a step function reads with state[key]: a missing key raises
StepReads(n) ==
    CASE n = "planner" -> {"task"}
      [] n = "travel_plan" -> {"task"}
      [] n = "generate" -> {"task", "plan"}
      [] n = "reflect" -> {"draft"}
      [] n = "travel_critique" -> {"critique"}
      [] OTHER -> {}

\* a selector that ends the loop one pass late
should_continue_OnePassLate(s) ==
    IF s["revision_number"] > s["max_revisions"] THEN END ELSE "reflect"

should_continue(s) ==
    IF s["revision_number"] >= s["max_revisions"] THEN END ELSE "reflect"

\* the keys the edge leaving node n reads with state[key]
EdgeReads(n) ==
    IF n = "generate" THEN {"revision_number", "max_revisions"} ELSE {}

\* the edge leaving node n, evaluated on the merged state s
NextNode(n, s) ==
    CASE n = START -> "planner"
      [] n = "planner" -> "travel_plan"
      [] n = "travel_plan" -> "generate"
      [] n = "generate" -> should_continue(s)
      [] n = "reflect" -> "travel_critique"
      [] n = "travel_critique" -> "generate"

(* ------------------------------------------------------------------ *)
(* Checkpoints                                                          *)
(* ------------------------------------------------------------------ *)

\* store[i] is the i-th checkpoint written for the thread; its id is i and
\* parent = 0 stands for no parent.  lastNode is the node whose run the
\* checkpoint's versions_seen records last (update_state's default as_node).
Checkpoint(parent, values, next, source, node, writes, lastNode) ==
    [parent |-> parent, values |-> values, next |-> next, source |-> source,
     node |-> node, writes |-> writes, lastNode |-> lastNode]

\* graph.get_state(config).next of the thread; END stands for the empty tuple
LatestNext(st) == IF Len(st) = 0 THEN END ELSE st[Len(st)].next

\* graph.get_state(config).values of the thread
LatestValues(st) == IF Len(st) = 0 THEN <<>> ELSE st[Len(st)].values

\* the checkpoints written for an input on a thread that has checkpoints
NumInputs(st) ==
    Cardinality({i \in 1..Len(st) : st[i].source = "input" /\ st[i].parent # 0})

\* the checkpoints of the thread that branch off an earlier checkpoint
NumForks(st) == Cardinality({i \in 1..Len(st) : st[i].parent # i - 1})

\* the checkpoints of the thread written by graph.update_state
NumUpdates(st) ==
    Cardinality({i \in 1..Len(st) :
                   /\ st[i].source = "update"
                   /\ st[i].writes # [messages |-> <<"tool_call_modified">>]})

\* the checkpoints of the thread that leave the straight run of the graph
NumDetours(st) == NumUpdates(st) + NumInputs(st) + NumForks(st)

\* the histories the model explores: every detour after the first takes four
\* checkpoints off the length explored
WithinBounds(st) ==
    /\ NumDetours(st) <= MaxDetours
    /\ Len(st) + (IF NumDetours(st) > 1 THEN 4 * (NumDetours(st) - 1) ELSE 0)
          <= MaxCkpts

(* ------------------------------------------------------------------ *)
(* The compiled graph's execution loop                                  *)
(* ------------------------------------------------------------------ *)

\* a loop that stops before planner only
ShouldInterrupt_PlannerOnly(n, hitl, resuming) ==
    hitl /\ ~resuming /\ n = "planner"

\* a loop that stops before every interrupt node, resumed or not
ShouldInterrupt_AlsoWhenResumed(n, hitl, resuming) ==
    hitl /\ n \in InterruptBefore

\* the loop stops before node n: n is an interrupt node of the graph in use
\* and some step ran since the invocation resumed
ShouldInterrupt(n, hitl, resuming) ==
    hitl /\ ~resuming /\ n \in InterruptBefore

\* node n raises on state s: its model call fails, or it or its outgoing
\* edge reads a key the state does not have
StepRaises(n, s, failNode) ==
    \/ n = failNode
    \/ ~(StepReads(n) \subseteq DOMAIN s)
    \/ (n \in Nodes /\ ~(EdgeReads(n) \subseteq DOMAIN Merge(s, StepUpdate(n, s))))

\* a step whose outgoing edge is evaluated on the revision_number the node
\* started from
StepCheckpoint_StaleEdge(st, cur, n) ==
    LET c == st[cur]
        upd == IF n = START THEN c.writes ELSE StepUpdate(n, c.values)
        v == Merge(c.values, upd)
        stale == IF Has(v, "revision_number")
                 THEN [v EXCEPT !["revision_number"] =
                                   Get(c.values, "revision_number", 0)]
                 ELSE v
    IN Checkpoint(cur, v, NextNode(n, stale), "loop", n,
                  IF n = START THEN <<>> ELSE upd, n)

\* the checkpoint written after node n ran from checkpoint cur
StepCheckpoint(st, cur, n) ==
    LET c == st[cur]
        upd == IF n = START THEN c.writes ELSE StepUpdate(n, c.values)
        v == Merge(c.values, upd)
    IN Checkpoint(cur, v, NextNode(n, v), "loop", n,
                  IF n = START THEN <<>> ELSE upd, n)

RECURSIVE Loop(_, _, _, _, _, _)
\* a loop that writes the checkpoint of a step whose model call failed
Loop_AdvancesOnFailure(st, cur, resuming, hitl, failNode, executed) ==
    LET n == st[cur].next IN
    IF n = END
    THEN [store |-> st, executed |-> executed, error |-> FALSE]
    ELSE IF ShouldInterrupt(n, hitl, resuming)
    THEN [store |-> st, executed |-> executed, error |-> FALSE]
    ELSE IF n = failNode /\ ~StepRaises(n, st[cur].values, "none")
    THEN [store |-> Append(st, StepCheckpoint(st, cur, n)),
          executed |-> Append(executed, n), error |-> TRUE]
    ELSE IF StepRaises(n, st[cur].values, failNode)
    THEN [store |-> st, executed |-> Append(executed, n), error |-> TRUE]
    ELSE Loop(Append(st, StepCheckpoint(st, cur, n)), Len(st) + 1, FALSE, hitl,
              failNode, IF n = START THEN executed ELSE Append(executed, n))

Loop(st, cur, resuming, hitl, failNode, executed) ==
    LET n == st[cur].next IN
    IF n = END
    THEN [store |-> st, executed |-> executed, error |-> FALSE]
    ELSE IF ShouldInterrupt(n, hitl, resuming)
    THEN [store |-> st, executed |-> executed, error |-> FALSE]
    ELSE IF StepRaises(n, st[cur].values, failNode)
    THEN [store |-> st, executed |-> Append(executed, n), error |-> TRUE]
    ELSE Loop(Append(st, StepCheckpoint(st, cur, n)), Len(st) + 1, FALSE, hitl,
              failNode, IF n = START THEN executed ELSE Append(executed, n))

\* the checkpoint that records an input given to the graph at checkpoint
\* from: the state is the one of from, and the input waits for __start__
InputCheckpoint(st, input, from) ==
    LET base == IF from = 0 THEN EmptyChannels ELSE st[from].values
        last == IF from = 0 THEN START ELSE st[from].lastNode
    IN Checkpoint(from, base, START, "input", START, input, last)

\* graph.invoke(input, config) from checkpoint from (0: the thread has none)
Invoke(st, input, from, hitl, failNode) ==
    IF input = None
    THEN IF from = 0
         THEN [store |-> st, executed |-> <<>>, error |-> TRUE]
         ELSE Loop(st, from, TRUE, hitl, failNode, <<>>)
    ELSE Loop(Append(st, InputCheckpoint(st, input, from)), Len(st) + 1, FALSE,
              hitl, failNode, <<>>)

(* ------------------------------------------------------------------ *)
(* Caller-facing handlers                                               *)
(* ------------------------------------------------------------------ *)

trip_input(message) ==
    [task |-> message, max_revisions |-> InitialMaxRevisions,
     revision_number |-> 0, count |-> 0, plan |-> "", draft |-> "",
     critique |-> "", content |-> <<>>, queries |-> <<>>,
     messages |-> <<"human">>]

\* what the last handler did: its name, the status it reported, the nodes
\* whose step function it called (the last one raised if error), the graph
\* it used, whether it invoked the graph with no input, the checkpoint it
\* started from and the number of checkpoints there were before it
Op(op, status, r, hitl, approved, resuming, from) ==
    [op |-> op, status |-> status, executed |-> r.executed, error |-> r.error,
     hitl |-> hitl, approved |-> approved, resuming |-> resuming,
     from |-> from, base |-> Len(store)]

\* existing_state.values and existing_state.values.get("task")
HasTask(st) == Len(st) > 0 /\ Get(LatestValues(st), "task", "") # ""

\* the graph call of invoke_agent on a thread whose checkpoints are st
InvokeAgentResult(st, message, use_hitl, failNode) ==
    IF HasTask(st)
    THEN Invoke(st, None, Len(st), use_hitl, failNode)
    ELSE Invoke(st, trip_input(message), Len(st), use_hitl, failNode)

invoke_agent(message, use_hitl, failNode) ==
    LET r == InvokeAgentResult(store, message, use_hitl, failNode)
        status == IF r.error THEN "error"
                  ELSE IF LatestNext(r.store) # END THEN "interrupted"
                  ELSE "completed"
    IN /\ WithinBounds(r.store)
       /\ store' = r.store
       /\ lastOp' = Op("run", status, r, use_hitl, FALSE, HasTask(store), Len(store))

\* an update attributed to the pending node, which moves the thread past it
UpdateState_AsPendingNode(st, values) ==
    LET from == Len(st)
        base == IF from = 0 THEN EmptyChannels ELSE st[from].values
        asNode == IF from = 0 THEN START ELSE st[from].next
        v == Merge(base, values)
    IN IF asNode = END \/ ~(EdgeReads(asNode) \subseteq DOMAIN v)
       THEN [store |-> st, executed |-> <<>>, error |-> TRUE]
       ELSE [store |-> Append(st, Checkpoint(from, v, NextNode(asNode, v),
                                             "update", asNode, values, asNode)),
             executed |-> <<>>, error |-> FALSE]

\* an update that overwrites every field it names, the accumulating ones too
UpdateState_Overwrites(st, values) ==
    LET from == Len(st)
        base == IF from = 0 THEN EmptyChannels ELSE st[from].values
        asNode == IF from = 0 THEN START ELSE st[from].lastNode
        v == [f \in (DOMAIN base) \cup (DOMAIN values) |->
                 IF f \in DOMAIN values THEN values[f] ELSE base[f]]
    IN IF ~(EdgeReads(asNode) \subseteq DOMAIN v)
       THEN [store |-> st, executed |-> <<>>, error |-> TRUE]
       ELSE [store |-> Append(st, Checkpoint(from, v, NextNode(asNode, v),
                                             "update", asNode, values, asNode)),
             executed |-> <<>>, error |-> FALSE]

\* graph.update_state(config, values) with as_node left to the graph: the
\* values are merged as a write of the node that ran last, and the edges
\* leaving that node are evaluated again on the merged state
UpdateState(st, values) ==
    LET from == Len(st)
        base == IF from = 0 THEN EmptyChannels ELSE st[from].values
        asNode == IF from = 0 THEN START ELSE st[from].lastNode
        v == Merge(base, values)
    IN IF ~(EdgeReads(asNode) \subseteq DOMAIN v)
       THEN [store |-> st, executed |-> <<>>, error |-> TRUE]
       ELSE [store |-> Append(st, Checkpoint(from, v, NextNode(asNode, v),
                                             "update", asNode, values, asNode)),
             executed |-> <<>>, error |-> FALSE]

\* the rejection marker of resume_agent
RejectionMarker == [messages |-> <<"rejected">>]

\* a resume that does not look at the thread's position first
\* the arguments a caller may send with an approval: none, or new arguments
\* for the tool call
ModifiedArgs == {None, [expression |-> "2*3"]}

\* hasattr(message, "tool_calls") and message.tool_calls: of the messages
\* of a trip thread, only an AI message a caller wrote into the state
\* carries tool calls
HasToolCalls(message) == message \in {"tool_call", "tool_call_modified"}

\* the approved branch of resume_agent on a thread whose checkpoints are
\* st: when modified_args is given and the last message carries tool
\* calls, a copy of the message with the arguments updated is written
\* with graph.update_state; then the graph is resumed
ApprovedResume(st, modified_args, failNode) ==
    LET values == LatestValues(st)
        edited ==
            IF modified_args = None THEN [store |-> st, error |-> FALSE]
            ELSE IF ~Has(values, "messages") \/ values["messages"] = <<>>
            THEN [store |-> st, error |-> TRUE]
            ELSE IF HasToolCalls(values["messages"][Len(values["messages"])])
            THEN UpdateState(st, [messages |-> <<"tool_call_modified">>])
            ELSE [store |-> st, error |-> FALSE]
    IN IF edited.error
       THEN [store |-> edited.store, executed |-> <<>>, error |-> TRUE]
       ELSE Invoke(edited.store, None, Len(edited.store), TRUE, failNode)

resume_agent_NoGuard(approved, modified_args, failNode) ==
    LET r == IF ~approved
             THEN UpdateState(store, RejectionMarker)
             ELSE ApprovedResume(store, modified_args, failNode)
        status == IF r.error THEN "error"
                  ELSE IF ~approved THEN "rejected"
                  ELSE "completed"
    IN /\ WithinBounds(r.store)
       /\ store' = r.store
       /\ lastOp' = [modified |-> approved /\ modified_args # None]
                       @@ Op("resume", status, r, TRUE, approved, TRUE,
                             Len(store))

\* the graph calls of resume_agent on a thread whose checkpoints are st
ResumeAgentResult(st, approved, modified_args, failNode) ==
    IF LatestNext(st) = END
    THEN [store |-> st, executed |-> <<>>, error |-> FALSE]
    ELSE IF ~approved
    THEN UpdateState(st, RejectionMarker)
    ELSE ApprovedResume(st, modified_args, failNode)

resume_agent(approved, modified_args, failNode) ==
    LET r == ResumeAgentResult(store, approved, modified_args, failNode)
        status == IF LatestNext(store) = END \/ r.error THEN "error"
                  ELSE IF ~approved THEN "rejected"
                  ELSE "completed"
    IN /\ WithinBounds(r.store)
       /\ store' = r.store
       /\ lastOp' = [modified |-> approved /\ modified_args # None]
                       @@ Op("resume", status, r, TRUE, approved, TRUE,
                             Len(store))

\* the partial updates the caller may send to update_state
Updates ==
    {[revision_number |-> 0], [revision_number |-> 3], [max_revisions |-> 0],
     [messages |-> <<"edit">>]}

update_state(updates) ==
    LET r == UpdateState(store, updates)
    IN /\ WithinBounds(r.store)
       /\ store' = r.store
       /\ lastOp' = Op("update_state", IF r.error THEN "error" ELSE "updated",
                       r, FALSE, FALSE, FALSE, Len(store))

\* an update of one value that edits the latest checkpoint where it is
UpdateStateValue_InPlace(st, key, value) ==
    LET current == LatestValues(st)
        values == [f \in (DOMAIN current) \cup {key} |->
                      IF f = key THEN value ELSE current[f]]
    IN IF Len(st) = 0
       THEN UpdateState(st, values)
       ELSE [store |-> [st EXCEPT ![Len(st)] = [@ EXCEPT !.values = values]],
             executed |-> <<>>, error |-> FALSE]

\* StateManager.update_state_value: the current values are read, key is set
\* in them, and the whole of them is written back with graph.update_state
UpdateStateValue(st, key, value) ==
    LET current == LatestValues(st)
        values == [f \in (DOMAIN current) \cup {key} |->
                      IF f = key THEN value ELSE current[f]]
    IN UpdateState(st, values)

\* the prompt fields of TripState the caller may edit, and the texts sent
PromptNames == {"planner_prompt"}

Prompts == {"", "prompt"}

\* POST /threads/{thread_id}/prompts/{prompt_name}: StateManager.update_prompt
update_prompt(prompt_name, new_prompt) ==
    LET r == IF new_prompt = ""
             THEN [store |-> store, executed |-> <<>>, error |-> TRUE]
             ELSE UpdateStateValue(store, prompt_name, new_prompt)
        status == IF new_prompt = "" THEN "bad_request"
                  ELSE IF r.error THEN "error"
                  ELSE "updated"
    IN /\ WithinBounds(r.store)
       /\ store' = r.store
       /\ lastOp' = Op("update_prompt", status, r, FALSE, FALSE, FALSE, Len(store))

\* the partial updates the caller may send to update_state_fields; its
\* message is an AI message with a tool call, which deserialize_messages
\* builds from {"type": "ai", "tool_calls": [...]}
FieldUpdates == {[draft |-> "edit", messages |-> <<"tool_call">>, count |-> 1]}

\* POST /threads/{thread_id}/state/update: StateManager.update_state_values
update_state_fields(state_update) ==
    LET missing == LatestValues(store) = <<>>
        r == IF missing
             THEN [store |-> store, executed |-> <<>>, error |-> TRUE]
             ELSE UpdateState(store, state_update)
        status == IF missing THEN "not_found"
                  ELSE IF r.error THEN "error"
                  ELSE "updated"
    IN /\ WithinBounds(r.store)
       /\ store' = r.store
       /\ lastOp' = Op("update_state_fields", status, r, FALSE, FALSE, FALSE,
                       Len(store))

\* POST /threads/{thread_id}/rewind: the checkpoint is looked up in the
\* history and its config is returned
rewind_checkpoint(checkpoint_id) ==
    LET found == checkpoint_id \in 1..Len(store)
        r == [store |-> store, executed |-> <<>>, error |-> ~found]
    IN /\ store' = r.store
       /\ lastOp' = Op("rewind", IF found THEN "rewound" ELSE "not_found", r,
                       FALSE, FALSE, FALSE, checkpoint_id)

\* the inputs the caller may send to resume_from_checkpoint
NewInputs == {None, [task |-> "trip"]}

\* StateManager.get_checkpoint_state(checkpoint_id).values is empty
CheckpointNotFound(st, checkpoint_id) == checkpoint_id \notin 1..Len(st)

\* a resume that ignores the checkpoint id and continues the latest checkpoint
ResumeFromCheckpoint_FromLatest(st, checkpoint_id, new_input, failNode) ==
    Invoke(st, new_input, Len(st), TRUE, failNode)

\* StateManager.resume_from_checkpoint
ResumeFromCheckpoint(st, checkpoint_id, new_input, failNode) ==
    Invoke(st, new_input, checkpoint_id, TRUE, failNode)

\* a resume_from that does not verify the checkpoint: an unknown id is a
\* thread without checkpoints to the graph
resume_from_checkpoint_Unverified(checkpoint_id, new_input, failNode) ==
    LET from == IF CheckpointNotFound(store, checkpoint_id) THEN 0
                ELSE checkpoint_id
        r == ResumeFromCheckpoint(store, from, new_input, failNode)
    IN /\ WithinBounds(r.store)
       /\ store' = r.store
       /\ lastOp' = Op("resume_from", IF r.error THEN "error" ELSE "completed",
                       r, TRUE, FALSE, new_input = None, checkpoint_id)

\* the graph calls of resume_from_checkpoint on a thread whose checkpoints
\* are st
ResumeFromResult(st, checkpoint_id, new_input, failNode) ==
    IF CheckpointNotFound(st, checkpoint_id)
    THEN [store |-> st, executed |-> <<>>, error |-> TRUE]
    ELSE ResumeFromCheckpoint(st, checkpoint_id, new_input, failNode)

resume_from_checkpoint(checkpoint_id, new_input, failNode) ==
    LET r == ResumeFromResult(store, checkpoint_id, new_input, failNode)
        status == IF CheckpointNotFound(store, checkpoint_id) THEN "not_found"
                  ELSE IF r.error THEN "error"
                  ELSE "completed"
    IN /\ WithinBounds(r.store)
       /\ store' = r.store
       /\ lastOp' = Op("resume_from", status, r, TRUE, FALSE, new_input = None,
                       checkpoint_id)

(* ------------------------------------------------------------------ *)
(* Text: what the language model returns and parse_tool_call reads     *)
(* ------------------------------------------------------------------ *)

\* A text is a sequence of lexemes.  The lexemes are those the JSON decoder
\* and the pattern of parse_tool_call tell apart: the four punctuation
\* characters of an object, white space, a string literal (written with its
\* quotes, v is what stands between them), a number, a word of prose, and an
\* array literal nested deeper than the interpreter's recursion limit.
Punct(c) == [k |-> "punct", v |-> c]

LBrace == Punct("{")

RBrace == Punct("}")

Colon == Punct(":")

Comma == Punct(",")

Space == [k |-> "space", v |-> " "]

Quoted(s) == [k |-> "string", v |-> s]

Number(d) == [k |-> "number", v |-> d]

Word(w) == [k |-> "word", v |-> w]

DeepArray == [k |-> "array", v |-> "[[...]]"]

\* the lexemes of the model, in the order that numbers them for hash
Alphabet ==
    <<LBrace, RBrace, Colon, Comma, Space, Quoted("tool"), Quoted("args"),
      Quoted("calculator"), Quoted("expression"), Quoted("2+2"),
      Quoted("note"), Number("1"), Word("Sure"), Word("ok"), DeepArray>>

\* Python values handed to parse_tool_call: a str, or something else
PyStr(t) == [type |-> "str", value |-> t]

PyNone == [type |-> "NoneType", value |-> <<>>]

NonStrings ==
    {PyNone, [type |-> "int", value |-> <<Number("1")>>],
     [type |-> "list", value |-> <<>>]}

\* bool(content): None, the empty str and the empty list are false
Truthy(c) == c.type # "NoneType" /\ c.value # <<>>

RECURSIVE lstrip(_)
lstrip(t) == IF t # <<>> /\ Head(t).k = "space" THEN lstrip(Tail(t)) ELSE t

RECURSIVE rstrip(_)
rstrip(t) ==
    IF t # <<>> /\ t[Len(t)].k = "space"
    THEN rstrip(SubSeq(t, 1, Len(t) - 1))
    ELSE t

\* str.strip()
strip(t) == rstrip(lstrip(t))

startswith(t, tok) == t # <<>> /\ Head(t) = tok

endswith(t, tok) == t # <<>> /\ t[Len(t)] = tok

(* ------------------------------------------------------------------ *)
(* json.loads, as parse_tool_call calls it                              *)
(* ------------------------------------------------------------------ *)

\* decoded values: a str, a number, a dict (a function from its keys); the
\* field of the record names the type
JStr(s) == [str |-> s]

JNum(d) == [number |-> d]

JDict(m) == [dict |-> m]

EmptyDict == JDict(<<>>)

IsStr(value) == DOMAIN value = {"str"}

IsNum(value) == DOMAIN value = {"number"}

IsDict(value) == DOMAIN value = {"dict"}

\* dict[key] = value: a repeated key keeps the last value
SetItem(m, key, value) ==
    [x \in DOMAIN m \cup {key} |-> IF x = key THEN value ELSE m[x]]

Decoded(value, end) == [ok |-> TRUE, value |-> value, end |-> end]

DecodeError(e) == [ok |-> FALSE, error |-> e]

\* the index of the first lexeme at or after i that is not white space
RECURSIVE skip(_, _)
skip(t, i) ==
    IF i <= Len(t) /\ t[i].k = "space" THEN skip(t, i + 1) ELSE i

RECURSIVE scan_once(_, _)
RECURSIVE scan_members(_, _, _)
\* the members of an object from index i on, m holding those read so far;
\* i is the index of a key
scan_members(t, i, m) ==
    IF i > Len(t) \/ t[i].k # "string" THEN DecodeError("JSONDecodeError")
    ELSE
      LET c == skip(t, i + 1)
      IN IF c > Len(t) \/ t[c] # Colon THEN DecodeError("JSONDecodeError")
         ELSE
           LET r == scan_once(t, skip(t, c + 1))
           IN IF ~r.ok THEN r
              ELSE
                LET n == skip(t, r.end)
                    m2 == SetItem(m, t[i].v, r.value)
                IN IF n > Len(t) THEN DecodeError("JSONDecodeError")
                   ELSE IF t[n] = RBrace THEN Decoded(JDict(m2), n + 1)
                   ELSE IF t[n] = Comma
                        THEN scan_members(t, skip(t, n + 1), m2)
                   ELSE DecodeError("JSONDecodeError")

\* one JSON value starting at index i
scan_once(t, i) ==
    IF i > Len(t) THEN DecodeError("JSONDecodeError")
    ELSE IF t[i].k = "string" THEN Decoded(JStr(t[i].v), i + 1)
    ELSE IF t[i].k = "number" THEN Decoded(JNum(t[i].v), i + 1)
    ELSE IF t[i].k = "array" THEN DecodeError("RecursionError")
    ELSE IF t[i] = LBrace
         THEN LET n == skip(t, i + 1)
              IN IF n <= Len(t) /\ t[n] = RBrace
                 THEN Decoded(EmptyDict, n + 1)
                 ELSE scan_members(t, n, <<>>)
    ELSE DecodeError("JSONDecodeError")

\* json.loads(t): one value, white space around it, nothing else
json_loads(t) ==
    LET r == scan_once(t, skip(t, 1))
    IN IF ~r.ok THEN r
       ELSE IF skip(t, r.end) <= Len(t) THEN DecodeError("JSONDecodeError")
       ELSE r

(* ------------------------------------------------------------------ *)
(* parse_tool_call: graph.py                                            *)
(* ------------------------------------------------------------------ *)

\* the ids are hash(content) % 100000
CallIdRange == 100000

\* hash(content) of the interpreter whose string-hash seed is seed.
\* CPython keys the hash of a str with a seed it draws when it starts
\* (PYTHONHASHSEED unset); the model keeps what the callers can observe:
\* equal texts hash equally under one seed, and the value depends on the
\* seed.
RECURSIVE hash(_, _)
hash(seed, t) ==
    IF t = <<>> THEN seed
    ELSE LET code == CHOOSE i \in 1..Len(Alphabet) : Alphabet[i] = t[Len(t)]
         IN (hash(seed, SubSeq(t, 1, Len(t) - 1)) * 31 + code) % 1048576

call_id(seed, t) == hash(seed, t) % CallIdRange

ToolCall(name, args, id) == [name |-> name, args |-> args, id |-> id]

\* an exception that leaves the function
Raised(e) == [raised |-> e]

\* the index of the first "}" at or after i, Len(t) + 1 if there is none
RECURSIVE upto_brace(_, _)
upto_brace(t, i) ==
    IF i <= Len(t) /\ t[i] # RBrace THEN upto_brace(t, i + 1) ELSE i

NoMatch == [matched |-> FALSE]

\* json_pattern matched at index s:
\*   \{"tool":\s*"([^"]+)",\s*"args":\s*(\{[^}]+\})\}
json_pattern_at(t, s) ==
    LET name == skip(t, s + 3)
        args_key == skip(t, name + 2)
        open == skip(t, args_key + 2)
        close == upto_brace(t, open + 1)
        At(i, tok) == i <= Len(t) /\ t[i] = tok
    IN IF /\ At(s, LBrace) /\ At(s + 1, Quoted("tool")) /\ At(s + 2, Colon)
          /\ name <= Len(t) /\ t[name].k = "string" /\ t[name].v # ""
          /\ At(name + 1, Comma)
          /\ At(args_key, Quoted("args")) /\ At(args_key + 1, Colon)
          /\ At(open, LBrace)
          /\ close > open + 1
          /\ At(close, RBrace) /\ At(close + 1, RBrace)
       THEN [matched |-> TRUE, tool_name |-> t[name].v,
             args_str |-> SubSeq(t, open, close)]
       ELSE NoMatch

\* re.search(json_pattern, t): the leftmost match
re_search(t) ==
    LET starts == {s \in 1..Len(t) : json_pattern_at(t, s).matched}
    IN IF starts = {} THEN NoMatch
       ELSE json_pattern_at(t, CHOOSE s \in starts : \A o \in starts : s <= o)

\* first layer: the stripped text starts with "{", ends with "}" and decodes
\* to an object that has the keys tool and args
StrictParse(seed, t) ==
    IF startswith(t, LBrace) /\ endswith(t, RBrace)
    THEN LET parsed == json_loads(t)
         IN IF parsed.ok
            THEN IF "tool" \in DOMAIN parsed.value.dict
                    /\ "args" \in DOMAIN parsed.value.dict
                 THEN ToolCall(parsed.value.dict["tool"],
                               parsed.value.dict["args"], call_id(seed, t))
                 ELSE None
            ELSE IF parsed.error = "JSONDecodeError" THEN None
            ELSE Raised(parsed.error)
    ELSE None

\* second layer: the pattern, and json.loads of the arguments it captured
PatternParse(seed, t) ==
    LET match == re_search(t)
    IN IF match.matched
       THEN LET args == json_loads(match.args_str)
            IN IF args.ok
               THEN ToolCall(JStr(match.tool_name), args.value,
                             call_id(seed, t))
               ELSE None
       ELSE None

parse_tool_call(seed, c) ==
    IF ~Truthy(c) \/ c.type # "str" THEN None
    ELSE LET t == strip(c.value)
             strict == StrictParse(seed, t)
         IN IF strict # None THEN strict ELSE PatternParse(seed, t)

(* ------------------------------------------------------------------ *)
(* The texts handed to parse_tool_call                                  *)
(* ------------------------------------------------------------------ *)

\* interpreters differ by their string-hash seed, 0..MaxSeed
MaxSeed == 1

Seeds == 0..MaxSeed

\* a JSON array nested deeper than the decoder can follow
JDeep == [list |-> "deep"]

\* the tool calls the language model may mean to write: a tool name and
\* its arguments, which are empty, flat, nested, or not a mapping
ToolNames == {"calculator", "note"}

ArgsWritten ==
    {EmptyDict,
     JDict([expression |-> JStr("2+2")]),
     JDict([expression |-> JDict([expression |-> JStr("2+2")])]),
     JDeep}

\* a value written as JSON; sep is what follows a colon
RECURSIVE Written(_, _)
Written(value, sep) ==
    IF IsStr(value) THEN <<Quoted(value.str)>>
    ELSE IF IsNum(value) THEN <<Number(value.number)>>
    ELSE IF ~IsDict(value) THEN <<DeepArray>>
    ELSE IF DOMAIN value.dict = {} THEN <<LBrace, RBrace>>
    ELSE LET key == CHOOSE x \in DOMAIN value.dict : TRUE
         IN <<LBrace, Quoted(key), Colon>> \o sep
              \o Written(value.dict[key], sep) \o <<RBrace>>

Layouts == {"compact", "spaced", "args_first", "extra_key", "indented"}

\* the object {"tool": name, "args": args} as the language model may lay it
\* out: as SYSTEM_PROMPT shows it ("spaced"), without white space, with the
\* keys in the other order, with a third key, or with white space inside
\* the braces
WrittenCall(name, args, layout) ==
    LET sep == IF layout = "compact" THEN <<>> ELSE <<Space>>
        tool == <<Quoted("tool"), Colon>> \o sep \o <<Quoted(name)>>
        argm == <<Quoted("args"), Colon>> \o sep \o Written(args, sep)
        extra == <<Quoted("note"), Colon>> \o sep \o <<Number("1")>>
        next == <<Comma>> \o sep
    IN CASE layout = "args_first" ->
                <<LBrace>> \o argm \o next \o tool \o <<RBrace>>
         [] layout = "extra_key" ->
                <<LBrace>> \o tool \o next \o argm \o next \o extra
                  \o <<RBrace>>
         [] layout = "indented" ->
                <<LBrace, Space>> \o tool \o next \o argm \o <<Space, RBrace>>
         [] OTHER ->
                <<LBrace>> \o tool \o next \o argm \o <<RBrace>>

\* t without its i-th lexeme; t itself when i = 0
Without(t, i) ==
    IF i = 0 THEN t ELSE SubSeq(t, 1, i - 1) \o SubSeq(t, i + 1, Len(t))

\* what the language model may put before and after the object
Leading == {<<>>, <<Space>>, <<Word("Sure"), Space>>}

Trailing == {<<>>, <<Space>>, <<Space, Word("ok")>>}

\* the texts of the model: every object in every layout, whole or with one
\* lexeme missing, alone or among prose; plain prose; the empty text
Texts ==
    {<<>>, <<Space>>, <<Word("Sure")>>, <<Word("Sure"), Space, Word("ok")>>}
    \cup
    UNION {
      LET call == WrittenCall(n, a, l)
      IN {p \o Without(call, i) \o s :
            i \in 0..Len(call), p \in Leading, s \in Trailing} :
      n \in ToolNames, a \in ArgsWritten, l \in Layouts}

Contents == {PyStr(t) : t \in Texts} \cup NonStrings

\* no stream of stream_agent is open
NoStream == [active |-> FALSE, cur |-> 0, hitl |-> FALSE]

Init ==
    /\ store = <<>>
    /\ stream = NoStream
    /\ other = <<>>
    /\ thread = "A"
    /\ content = PyNone
    /\ hashSeed = 0
    /\ invoked = <<>>
    /\ lastOp = [op |-> "init", status |-> "none", executed |-> <<>>,
                 error |-> FALSE, hitl |-> FALSE, approved |-> FALSE,
                 resuming |-> FALSE, from |-> 0, base |-> 0]

\* the node whose model call fails during a handler, if any
FailNodes == {"none", "generate"}

\* the handlers called one after the other on one thread
Next ==
    \/ \E m \in Messages, h \in BOOLEAN, f \in FailNodes :
          invoke_agent(m, h, f) /\ UNCHANGED <<stream, other, thread, tooling>>
    \/ \E a \in BOOLEAN, m \in ModifiedArgs, f \in FailNodes :
          resume_agent(a, m, f)
            /\ UNCHANGED <<stream, other, thread, tooling>>
    \/ \E u \in Updates :
          update_state(u) /\ UNCHANGED <<stream, other, thread, tooling>>
    \/ \E c \in 1..(Len(store) + 1), i \in NewInputs, f \in FailNodes :
          resume_from_checkpoint(c, i, f) /\ UNCHANGED <<stream, other, thread, tooling>>
    \/ \E n \in PromptNames, p \in Prompts :
          update_prompt(n, p) /\ UNCHANGED <<stream, other, thread, tooling>>
    \/ \E u \in FieldUpdates :
          update_state_fields(u) /\ UNCHANGED <<stream, other, thread, tooling>>
    \/ \E c \in {1, Len(store) + 1} :
          rewind_checkpoint(c) /\ UNCHANGED <<stream, other, thread, tooling>>

Spec == Init /\ [][Next]_vars

(* ------------------------------------------------------------------ *)
(* A stream open while other requests arrive: stream_agent              *)
(* ------------------------------------------------------------------ *)

\* one turn of the generator of graph.stream, which keeps its own position
\* cur between two events: it runs the pending node of cur, unless the graph
\* stops there, and yields the node's update
StreamTick(st, cur, resuming, hitl, failNode) ==
    LET n == st[cur].next IN
    IF n = END \/ ShouldInterrupt(n, hitl, resuming)
    THEN [store |-> st, cur |-> cur, executed |-> <<>>, error |-> FALSE,
          active |-> FALSE]
    ELSE IF StepRaises(n, st[cur].values, failNode)
    THEN [store |-> st, cur |-> cur, executed |-> <<n>>, error |-> TRUE,
          active |-> FALSE]
    ELSE [store |-> Append(st, StepCheckpoint(st, cur, n)), cur |-> Len(st) + 1,
          executed |-> <<n>>, error |-> FALSE, active |-> TRUE]

\* graph.stream(stream_input, config) up to its first event: None continues
\* the latest checkpoint, an input is recorded and consumed by __start__,
\* which yields no event
StreamFirst(st, message, use_hitl, failNode) ==
    IF HasTask(st)
    THEN StreamTick(st, Len(st), TRUE, use_hitl, failNode)
    ELSE LET st1 == Append(st, InputCheckpoint(st, trip_input(message), Len(st)))
             st2 == Append(st1, StepCheckpoint(st1, Len(st1), START))
         IN StreamTick(st2, Len(st2), FALSE, use_hitl, failNode)

\* an event read from the latest state whatever the turn did
StreamEvent_Unguarded(r) ==
    IF r.active THEN "node"
    ELSE IF LatestNext(r.store) # END THEN "interrupt"
    ELSE "complete"

\* the event a turn of event_generator ends with: a node's update, the error,
\* or the interrupt or complete event read from the thread's latest state
StreamEvent(r) ==
    IF r.error THEN "error"
    ELSE IF r.active THEN "node"
    ELSE IF LatestNext(r.store) # END THEN "interrupt"
    ELSE "complete"

\* POST /runs/stream: the response starts and event_generator runs up to its
\* first yield
stream_agent(message, use_hitl, failNode) ==
    LET r == StreamFirst(store, message, use_hitl, failNode)
    IN /\ ~stream.active
       /\ WithinBounds(r.store)
       /\ store' = r.store
       /\ stream' = [active |-> r.active, cur |-> r.cur, hitl |-> use_hitl]
       /\ lastOp' = Op("stream", StreamEvent(r), r, use_hitl, FALSE,
                       HasTask(store), Len(store))
       /\ UNCHANGED <<other, thread, tooling>>

\* event_generator is resumed after a yield and runs up to its next yield
stream_next(failNode) ==
    LET r == StreamTick(store, stream.cur, FALSE, stream.hitl, failNode)
    IN /\ stream.active
       /\ WithinBounds(r.store)
       /\ store' = r.store
       /\ stream' = [stream EXCEPT !.active = r.active, !.cur = r.cur]
       /\ lastOp' = Op("stream", StreamEvent(r), r, stream.hitl, FALSE, FALSE,
                       stream.cur)
       /\ UNCHANGED <<other, thread, tooling>>

\* the inputs a caller of GraphRunner gives the graph
RunnerInputs == {None, trip_input("trip")}

\* the events GraphRunner.execute_with_streaming yields to a caller that
\* reads them all, r being what graph.stream did: one node event for each
\* step that returned, then the event read from the final state; an
\* exception of graph.stream is not caught and ends the generator
RunnerEvents(r) ==
    LET returned == IF r.error THEN Len(r.executed) - 1 ELSE Len(r.executed)
        nodes == [i \in 1..(IF returned < 0 THEN 0 ELSE returned) |-> "node"]
    IN IF r.error THEN nodes
       ELSE IF LatestNext(r.store) # END THEN Append(nodes, "interrupt")
       ELSE Append(nodes, "complete")

\* GraphRunner(graph).execute_with_streaming(thread_id, input_data), the
\* generator read to its end
execute_with_streaming(input_data, hitl, failNode) ==
    LET r == Invoke(store, input_data, Len(store), hitl, failNode)
    IN /\ ~stream.active
       /\ WithinBounds(r.store)
       /\ store' = r.store
       /\ lastOp' = [events |-> RunnerEvents(r)]
                       @@ Op("execute_with_streaming",
                             IF r.error THEN "raised" ELSE "returned", r, hitl,
                             FALSE, input_data = None, Len(store))
       /\ UNCHANGED <<stream, other, thread, tooling>>

\* the requests for one thread while a stream may be open: a handler that
\* does not await runs as a whole between two turns of event_generator
NextStream ==
    \/ \E m \in Messages, h \in BOOLEAN, f \in FailNodes :
          stream_agent(m, h, f)
    \/ \E i \in RunnerInputs, h \in BOOLEAN, f \in FailNodes :
          execute_with_streaming(i, h, f)
    \/ \E f \in FailNodes :
          stream_next(f)
    \/ \E m \in Messages, h \in BOOLEAN, f \in FailNodes :
          invoke_agent(m, h, f) /\ UNCHANGED <<stream, other, thread, tooling>>
    \/ \E a \in BOOLEAN, m \in ModifiedArgs, f \in FailNodes :
          resume_agent(a, m, f)
            /\ UNCHANGED <<stream, other, thread, tooling>>

SpecStream == Init /\ [][NextStream]_vars

(* ------------------------------------------------------------------ *)
(* Two threads on the shared checkpointer                               *)
(* ------------------------------------------------------------------ *)

\* the thread ids of the requests
Threads == {"A", "B"}

\* checkpoints of the two threads together, in the histories explored; the
\* detours of the two threads together stay within MaxDetours
MaxBoth == 10

\* a config that names thread A whatever the request says
ThreadKey_Shared(thread_id) == "A"

\* config = {"configurable": {"thread_id": thread_id}}: the key under which
\* the checkpointer keeps the thread's checkpoints
ThreadKey(thread_id) == thread_id

\* the checkpoints the checkpointer keeps under key: store holds those of
\* thread A, other those of thread B
Storage(key) == IF key = "A" THEN store ELSE other

\* the checkpoints of the thread a request for thread_id works on
Thread(thread_id) == Storage(ThreadKey(thread_id))

\* a request for thread_id whose graph calls returned r: the checkpointer
\* keeps r.store under the thread's key
OnThread(thread_id, r) ==
    /\ WithinBounds(r.store)
    /\ IF ThreadKey(thread_id) = "A"
       THEN store' = r.store /\ other' = other
       ELSE other' = r.store /\ store' = store
    /\ Len(store') + Len(other') <= MaxBoth
    /\ NumDetours(store') + NumDetours(other') <= MaxDetours
    /\ thread' = thread_id
    /\ UNCHANGED <<lastOp, stream, tooling>>

\* run, resume, update_state and resume_from requests for the two threads,
\* in any order
NextThreads ==
    \E t \in Threads :
        \/ \E m \in Messages, h \in BOOLEAN, f \in FailNodes :
              OnThread(t, InvokeAgentResult(Thread(t), m, h, f))
        \/ \E a \in BOOLEAN, m \in ModifiedArgs, f \in FailNodes :
              OnThread(t, ResumeAgentResult(Thread(t), a, m, f))
        \/ \E u \in Updates :
              OnThread(t, UpdateState(Thread(t), u))
        \/ \E c \in 1..(Len(Thread(t)) + 1), i \in NewInputs, f \in FailNodes :
              OnThread(t, ResumeFromResult(Thread(t), c, i, f))

SpecThreads == Init /\ [][NextThreads]_vars

(* ------------------------------------------------------------------ *)
(* eval of an arithmetic expression, as calculator calls it: tools.py   *)
(* ------------------------------------------------------------------ *)

\* An expression is a sequence of characters.
Digits == <<"0", "1", "2", "3", "4", "5", "6", "7", "8", "9">>

IsDigit(c) == \E i \in 1..Len(Digits) : Digits[i] = c

DigitValue(c) == (CHOOSE i \in 1..Len(Digits) : Digits[i] = c) - 1

allowed_chars ==
    {Digits[i] : i \in 1..Len(Digits)}
      \cup {"+", "-", "*", "/", "(", ")", ".", " "}

\* the index after the digits that start at i
RECURSIVE digits_end(_, _)
digits_end(e, i) ==
    IF i <= Len(e) /\ IsDigit(e[i]) THEN digits_end(e, i + 1) ELSE i

\* the number a sequence of digits writes
RECURSIVE int_of(_)
int_of(ds) ==
    IF ds = <<>> THEN 0
    ELSE int_of(SubSeq(ds, 1, Len(ds) - 1)) * 10 + DigitValue(ds[Len(ds)])

RECURSIVE Power(_, _)
Power(b, e) == IF e = 0 THEN 1 ELSE b * Power(b, e - 1)

\* Values.  A number is the fraction n/d, d > 0, of type int or float; the
\* rounding of float arithmetic is not modelled.  exact is FALSE for a float
\* the model does not compute (a power with a fractional exponent), which
\* is positive.
Num(t, n, d) == [t |-> t, n |-> n, d |-> d, exact |-> TRUE]

Inexact == [t |-> "float", n |-> 1, d |-> 1, exact |-> FALSE]

EmptyTuple == [t |-> "tuple"]

Ellipsis == [t |-> "ellipsis"]

Complex == [t |-> "complex"]

IsNumber(x) == x.t \in {"int", "float"}

\* Tokens of the expression
Tok(k, v) == [k |-> k, v |-> v]

IsOp(tok, o) == tok.k = "op" /\ tok.v = o

\* the token that starts at index i of e, and the index after it
NextToken(e, i) ==
    LET c == e[i]
        c2 == IF i + 1 <= Len(e) THEN e[i + 1] ELSE ""
        c3 == IF i + 2 <= Len(e) THEN e[i + 2] ELSE ""
    IN IF IsDigit(c)
       THEN LET j == digits_end(e, i)
                whole == SubSeq(e, i, j - 1)
            IN IF j <= Len(e) /\ e[j] = "."
               THEN LET m == digits_end(e, j + 1)
                        frac == SubSeq(e, j + 1, m - 1)
                    IN IF m <= Len(e) /\ e[m] \notin allowed_chars
                       THEN [tok |-> Tok("invalid", "literal"), end |-> m]
                       ELSE [tok |-> Tok("number",
                                         Num("float",
                                             int_of(whole) * Power(10, Len(frac))
                                               + int_of(frac),
                                             Power(10, Len(frac)))),
                             end |-> m]
               ELSE IF j <= Len(e) /\ e[j] \notin allowed_chars
                    THEN [tok |-> Tok("invalid", "literal"), end |-> j]
               ELSE IF Len(whole) > 1 /\ whole[1] = "0" /\ int_of(whole) # 0
                    THEN [tok |-> Tok("invalid", "leading zeros"), end |-> j]
               ELSE [tok |-> Tok("number", Num("int", int_of(whole), 1)),
                     end |-> j]
       ELSE IF c = "."
       THEN IF IsDigit(c2)
            THEN LET m == digits_end(e, i + 1)
                     frac == SubSeq(e, i + 1, m - 1)
                 IN IF m <= Len(e) /\ e[m] \notin allowed_chars
                    THEN [tok |-> Tok("invalid", "literal"), end |-> m]
                    ELSE [tok |-> Tok("number",
                                      Num("float", int_of(frac),
                                          Power(10, Len(frac)))),
                          end |-> m]
            ELSE IF c2 = "." /\ c3 = "."
                 THEN [tok |-> Tok("ellipsis", "..."), end |-> i + 3]
            ELSE [tok |-> Tok("op", "."), end |-> i + 1]
       ELSE IF c = "*" /\ c2 = "*" THEN [tok |-> Tok("op", "**"), end |-> i + 2]
       ELSE IF c = "/" /\ c2 = "/" THEN [tok |-> Tok("op", "//"), end |-> i + 2]
       ELSE IF c \in allowed_chars THEN [tok |-> Tok("op", c), end |-> i + 1]
       ELSE LET m == CHOOSE x \in i + 1..Len(e) + 1 :
                        /\ \A y \in i + 1..x - 1 :
                              e[y] \notin allowed_chars \/ IsDigit(e[y])
                        /\ x = Len(e) + 1
                             \/ (e[x] \in allowed_chars /\ ~IsDigit(e[x]))
            IN [tok |-> Tok("name", "a"), end |-> m]

\* the tokens of e from index i on; white space separates tokens
RECURSIVE tokenize(_, _)
tokenize(e, i) ==
    IF i > Len(e) THEN <<>>
    ELSE IF e[i] = " " THEN tokenize(e, i + 1)
    ELSE LET n == NextToken(e, i) IN <<n.tok>> \o tokenize(e, n.end)

\* Syntax trees
Parsed(node, pos) == [ok |-> TRUE, node |-> node, pos |-> pos]

SyntaxError == [ok |-> FALSE, error |-> "SyntaxError"]

Unary(op, a) == [n |-> "unary", op |-> op, a |-> a]

Binary(op, a, b) == [n |-> "binary", op |-> op, a |-> a, b |-> b]

Call(f, args) == [n |-> "call", f |-> f, args |-> args]

Leaf(value) == [n |-> "value", value |-> value]

Name == [n |-> "name"]

At(ts, i, o) == i <= Len(ts) /\ IsOp(ts[i], o)

RECURSIVE p_sum(_, _)
RECURSIVE p_sum_rest(_, _, _)
RECURSIVE p_term(_, _)
RECURSIVE p_term_rest(_, _, _)
RECURSIVE p_factor(_, _)
RECURSIVE p_power(_, _)
RECURSIVE p_trailers(_, _, _)
RECURSIVE p_atom(_, _)

\* the sum s in parentheses, and the parenthesis that closes it
p_closed(ts, s) ==
    IF ~s.ok THEN s
    ELSE IF At(ts, s.pos, ")") THEN Parsed(s.node, s.pos + 1)
    ELSE SyntaxError

\* atom: NUMBER | '...' | NAME | '(' ')' | '(' sum ')'
p_atom(ts, i) ==
    IF i > Len(ts) THEN SyntaxError
    ELSE IF ts[i].k = "number" THEN Parsed(Leaf(ts[i].v), i + 1)
    ELSE IF ts[i].k = "ellipsis" THEN Parsed(Leaf(Ellipsis), i + 1)
    ELSE IF ts[i].k = "name" THEN Parsed(Name, i + 1)
    ELSE IF IsOp(ts[i], "(")
         THEN IF At(ts, i + 1, ")") THEN Parsed(Leaf(EmptyTuple), i + 2)
              ELSE p_closed(ts, p_sum(ts, i + 1))
    ELSE SyntaxError

\* the call of f with the argument s, and the trailers after it
p_call(ts, f, s) ==
    IF ~s.ok THEN s
    ELSE IF At(ts, s.pos, ")")
         THEN p_trailers(ts, s.pos + 1, Call(f, <<s.node>>))
    ELSE SyntaxError

\* primary: atom ('(' [['*' | '**'] sum] ')')*
p_trailers(ts, i, f) ==
    IF ~At(ts, i, "(") THEN Parsed(f, i)
    ELSE IF At(ts, i + 1, ")") THEN p_trailers(ts, i + 2, Call(f, <<>>))
    ELSE p_call(ts, f,
                p_sum(ts, IF At(ts, i + 1, "*") \/ At(ts, i + 1, "**")
                          THEN i + 2 ELSE i + 1))

\* the power of the primary p with the exponent f
p_raised(p, f) ==
    IF ~f.ok THEN f ELSE Parsed(Binary("**", p.node, f.node), f.pos)

\* what follows the primary p of a power
p_exponent(ts, p) ==
    IF ~p.ok THEN p
    ELSE IF At(ts, p.pos, "**") THEN p_raised(p, p_factor(ts, p.pos + 1))
    ELSE p

\* what follows the atom a of a power
p_primary(ts, a) ==
    IF ~a.ok THEN a ELSE p_exponent(ts, p_trailers(ts, a.pos, a.node))

\* power: primary ['**' factor]
p_power(ts, i) == p_primary(ts, p_atom(ts, i))

\* the factor f with the sign op
p_signed(op, f) == IF ~f.ok THEN f ELSE Parsed(Unary(op, f.node), f.pos)

\* factor: ('+' | '-') factor | power
p_factor(ts, i) ==
    IF At(ts, i, "+") \/ At(ts, i, "-")
    THEN p_signed(ts[i].v, p_factor(ts, i + 1))
    ELSE p_power(ts, i)

\* the term of left, op and the factor f, and the rest of the term
p_term_next(ts, op, left, f) ==
    IF ~f.ok THEN f ELSE p_term_rest(ts, f.pos, Binary(op, left, f.node))

\* term: factor (('*' | '/' | '//') factor)*
p_term_rest(ts, i, left) ==
    IF At(ts, i, "*") \/ At(ts, i, "/") \/ At(ts, i, "//")
    THEN p_term_next(ts, ts[i].v, left, p_factor(ts, i + 1))
    ELSE Parsed(left, i)

p_term_first(ts, f) == IF ~f.ok THEN f ELSE p_term_rest(ts, f.pos, f.node)

p_term(ts, i) == p_term_first(ts, p_factor(ts, i))

\* the sum of left, op and the term t, and the rest of the sum
p_sum_next(ts, op, left, t) ==
    IF ~t.ok THEN t ELSE p_sum_rest(ts, t.pos, Binary(op, left, t.node))

\* sum: term (('+' | '-') term)*
p_sum_rest(ts, i, left) ==
    IF At(ts, i, "+") \/ At(ts, i, "-")
    THEN p_sum_next(ts, ts[i].v, left, p_term(ts, i + 1))
    ELSE Parsed(left, i)

p_sum_first(ts, t) == IF ~t.ok THEN t ELSE p_sum_rest(ts, t.pos, t.node)

p_sum(ts, i) == p_sum_first(ts, p_term(ts, i))

\* the expression s of the tokens ts, which has to be all of them
p_whole(ts, s) ==
    IF \E i \in 1..Len(ts) : ts[i].k = "invalid" THEN SyntaxError
    ELSE IF ~s.ok THEN s
    ELSE IF s.pos <= Len(ts) THEN SyntaxError
    ELSE s

p_tokens(ts) == p_whole(ts, p_sum(ts, 1))

\* compile(expression, "<string>", "eval"): one expression and nothing else
compile(e) == p_tokens(tokenize(e, 1))

\* Evaluation
Value(x) == [ok |-> TRUE, value |-> x]

Exception(e) == [ok |-> FALSE, error |-> e]

\* the type of the result of an operation on the numbers a and b
Wider(a, b) == IF a.t = "int" /\ b.t = "int" THEN "int" ELSE "float"

IsWhole(x) == x.exact /\ x.n % x.d = 0

Abs(n) == IF n < 0 THEN 0 - n ELSE n

\* a ** b for numbers
pow(a, b) ==
    IF ~a.exact \/ ~b.exact THEN Value(Inexact)
    ELSE IF IsWhole(b)
    THEN LET k == Abs(b.n \div b.d)
         IN IF b.n >= 0
            THEN Value(Num(Wider(a, b), Power(a.n, k), Power(a.d, k)))
            ELSE IF a.n = 0 THEN Exception("ZeroDivisionError")
            ELSE Value(Num("float",
                           (IF a.n < 0 /\ k % 2 = 1 THEN 0 - 1 ELSE 1)
                             * Power(a.d, k),
                           Power(Abs(a.n), k)))
    ELSE IF a.n = 0
         THEN IF b.n > 0 THEN Value(Num("float", 0, 1))
              ELSE Exception("ZeroDivisionError")
    ELSE IF a.n < 0 THEN Value(Complex)
    ELSE Value(Inexact)

\* a op b for numbers
arith(op, a, b) ==
    IF op = "**" THEN pow(a, b)
    ELSE IF op \in {"/", "//"} /\ b.exact /\ b.n = 0
    THEN Exception("ZeroDivisionError")
    ELSE IF ~a.exact \/ ~b.exact THEN Value(Inexact)
    ELSE IF op = "+"
    THEN Value(Num(Wider(a, b), a.n * b.d + b.n * a.d, a.d * b.d))
    ELSE IF op = "-"
    THEN Value(Num(Wider(a, b), a.n * b.d - b.n * a.d, a.d * b.d))
    ELSE IF op = "*"
    THEN Value(Num(Wider(a, b), a.n * b.n, a.d * b.d))
    ELSE LET n == (IF b.n < 0 THEN 0 - 1 ELSE 1) * a.n * b.d
             d == a.d * Abs(b.n)
         IN IF op = "/" THEN Value(Num("float", n, d))
            ELSE Value(Num(Wider(a, b), n \div d, 1))

\* a op b
binary_op(op, a, b) ==
    IF IsNumber(a) /\ IsNumber(b) THEN arith(op, a, b)
    ELSE IF a.t = "complex" \/ b.t = "complex"
    THEN IF a.t \in {"tuple", "ellipsis"} \/ b.t \in {"tuple", "ellipsis"}
            \/ op = "//"
         THEN Exception("TypeError")
         ELSE Value(Complex)
    ELSE IF op = "+" /\ a.t = "tuple" /\ b.t = "tuple" THEN Value(EmptyTuple)
    ELSE IF op = "*" /\ ((a.t = "tuple" /\ b.t = "int")
                           \/ (a.t = "int" /\ b.t = "tuple"))
    THEN Value(EmptyTuple)
    ELSE Exception("TypeError")

unary_op(op, a) ==
    IF IsNumber(a)
    THEN IF op = "-" /\ a.exact THEN Value(Num(a.t, 0 - a.n, a.d)) ELSE Value(a)
    ELSE IF a.t = "complex" THEN Value(a)
    ELSE Exception("TypeError")

\* the value of a syntax tree, with no name defined; operands are
\* evaluated from left to right and no value of the model can be called
RECURSIVE evaluate(_)
evaluate(node) ==
    IF node.n = "value" THEN Value(node.value)
    ELSE IF node.n = "name" THEN Exception("NameError")
    ELSE IF node.n = "unary"
    THEN LET a == evaluate(node.a)
         IN IF ~a.ok THEN a ELSE unary_op(node.op, a.value)
    ELSE IF node.n = "binary"
    THEN LET a == evaluate(node.a)
         IN IF ~a.ok THEN a
            ELSE LET b == evaluate(node.b)
                 IN IF ~b.ok THEN b ELSE binary_op(node.op, a.value, b.value)
    ELSE LET f == evaluate(node.f)
         IN IF ~f.ok THEN f
            ELSE IF node.args # <<>> /\ ~evaluate(node.args[1]).ok
                 THEN evaluate(node.args[1])
            ELSE Exception("TypeError")

\* eval(expression, {"__builtins__": {}}, {})
exec(code) == IF ~code.ok THEN Exception(code.error) ELSE evaluate(code.node)

eval(e) == exec(compile(e))

(* ------------------------------------------------------------------ *)
(* calculator: tools.py                                                 *)
(* ------------------------------------------------------------------ *)

\* the str calculator returns: "Result: ..." or "Error: ..."; evaluated
\* tells whether eval was called
Returned(prefix, body, evaluated) ==
    [prefix |-> prefix, body |-> body, evaluated |-> evaluated]

\* what calculator returns after eval: its result, or the message of the
\* exception it raised
Evaluated(result) ==
    IF result.ok THEN Returned("Result", result.value, TRUE)
    ELSE Returned("Error", result.error, TRUE)

\* calculator without the test of the characters
calculator_Unchecked(expression) == Evaluated(eval(expression))

calculator(expression) ==
    IF \E i \in 1..Len(expression) : expression[i] \notin allowed_chars
    THEN Returned("Error", "Invalid characters in expression", FALSE)
    ELSE Evaluated(eval(expression))

(* ------------------------------------------------------------------ *)
(* Detection of tool calls, interpreter after interpreter              *)
(* ------------------------------------------------------------------ *)

\* the state of the tool side before anything ran: no checkpoints, no tool
\* invoked
InitTools ==
    /\ store = <<>>
    /\ stream = NoStream
    /\ other = <<>>
    /\ thread = "A"
    /\ invoked = <<>>
    /\ lastOp = [op |-> "init"]

InitDetect ==
    /\ InitTools
    /\ content \in Contents
    /\ hashSeed \in Seeds

\* call_model hands the text of the response to parse_tool_call
Detect ==
    /\ lastOp' = [op |-> "parse_tool_call", content |-> content,
                  seed |-> hashSeed,
                  result |-> parse_tool_call(hashSeed, content)]
    /\ UNCHANGED <<store, stream, other, thread, tooling>>

\* the program is started again: a new interpreter, a new seed
Restart ==
    /\ \E seed \in Seeds \ {hashSeed} : hashSeed' = seed
    /\ UNCHANGED <<store, lastOp, stream, other, thread, content, invoked>>

NextDetect == Detect \/ Restart

SpecDetect == InitDetect /\ [][NextDetect]_vars

(* ------------------------------------------------------------------ *)
(* calculator on every short expression                                 *)
(* ------------------------------------------------------------------ *)

\* characters in an expression
MaxExpr == 4

\* the characters the expressions of the model are written with: two
\* digits, the other allowed characters, and a letter
ExprChars == {"2", "0", "+", "-", "*", "/", "(", ")", ".", " ", "a"}

Expressions == UNION {[1..n -> ExprChars] : n \in 0..MaxExpr}

InitCalc ==
    /\ InitTools
    /\ hashSeed = 0
    /\ content \in {PyStr(e) : e \in Expressions}

\* call_tools invokes the tool with the arguments of the tool call
Calculate ==
    /\ lastOp.op = "init"
    /\ lastOp' = [op |-> "calculator", expression |-> content.value,
                  result |-> calculator(content.value)]
    /\ UNCHANGED <<store, stream, other, thread, tooling>>

NextCalc == Calculate

SpecCalc == InitCalc /\ [][NextCalc]_vars

(* ------------------------------------------------------------------ *)
(* The agent graph: graph.py                                            *)
(* ------------------------------------------------------------------ *)

\* messages of a thread of the agent graph
MaxMessages == 5

AgentInterruptBefore == {"tools"}

HumanMessage(c) == [type |-> "human", content |-> c]

AIMessage(c, tool_calls) ==
    [type |-> "ai", content |-> c, tool_calls |-> tool_calls]

ToolMessage(c, tool_call_id, name) ==
    [type |-> "tool", content |-> c, tool_call_id |-> tool_call_id,
     name |-> name]

\* hasattr(message, "tool_calls") and message.tool_calls
CarriesToolCalls(message) ==
    "tool_calls" \in DOMAIN message /\ message.tool_calls # <<>>

\* the names of the registry
tools_by_name == {"tavily_search_results_json", "get_travel_budget",
                  "calculator"}

\* the characters of the expressions the language model writes
Characters(s) ==
    IF s = "2+2" THEN <<"2", "+", "2">>
    ELSE IF s = "2*3" THEN <<"2", "*", "3">>
    ELSE <<"a">>

\* tool.invoke(tool_args): the arguments are validated against the schema
\* of the tool, then the function is called.  Of the arguments of the model
\* only {"expression": <str>} fits a schema, the one of calculator.
ToolInvoke(tool_name, tool_args) ==
    IF /\ tool_name = "calculator"
       /\ IsDict(tool_args)
       /\ DOMAIN tool_args.dict = {"expression"}
       /\ IsStr(tool_args.dict["expression"])
    THEN Value(calculator(Characters(tool_args.dict["expression"].str)))
    ELSE Exception("ValidationError")

\* the tool is in the registry and call_tools calls it
Invokes(tool_call) == tool_call.name.str \in tools_by_name

ToolOutcome(message) == [raised |-> FALSE, message |-> message]

\* a lookup tools_by_name[tool_name], which raises for a name that is not
\* in the registry
ToolResult_KeyError(tool_call) ==
    LET tool_name == tool_call.name.str
        result == ToolInvoke(tool_name, tool_call.args)
    IN IF ~Invokes(tool_call) THEN [raised |-> TRUE]
       ELSE IF result.ok
       THEN ToolOutcome(ToolMessage(result.value, tool_call.id, tool_name))
       ELSE ToolOutcome(ToolMessage(
                [prefix |-> "Error executing tool", body |-> result.error],
                tool_call.id, tool_name))

\* a call of the tool outside try ... except
ToolResult_NoTry(tool_call) ==
    LET tool_name == tool_call.name.str
        result == ToolInvoke(tool_name, tool_call.args)
    IN IF ~Invokes(tool_call)
       THEN ToolOutcome(ToolMessage(
                [prefix |-> "Tool not found", body |-> tool_name],
                tool_call.id, tool_name))
       ELSE IF result.ok
       THEN ToolOutcome(ToolMessage(result.value, tool_call.id, tool_name))
       ELSE [raised |-> TRUE]

\* call_tools, for one tool call of the last message: the message it
\* appends to tool_messages
ToolResult(tool_call) ==
    LET tool_name == tool_call.name.str
        result == ToolInvoke(tool_name, tool_call.args)
    IN IF ~Invokes(tool_call)
       THEN ToolOutcome(ToolMessage(
                [prefix |-> "Tool not found", body |-> tool_name],
                tool_call.id, tool_name))
       ELSE IF result.ok
       THEN ToolOutcome(ToolMessage(result.value, tool_call.id, tool_name))
       ELSE ToolOutcome(ToolMessage(
                [prefix |-> "Error executing tool", body |-> result.error],
                tool_call.id, tool_name))

\* call_tools(state): the partial update, or the exception of the step
call_tools(state) ==
    LET last_message == state["messages"][Len(state["messages"])]
        tool_calls == IF CarriesToolCalls(last_message)
                      THEN last_message.tool_calls ELSE <<>>
        results == [i \in 1..Len(tool_calls) |-> ToolResult(tool_calls[i])]
    IN IF \E i \in 1..Len(results) : results[i].raised
       THEN [raised |-> TRUE]
       ELSE [raised |-> FALSE,
             messages |-> [i \in 1..Len(results) |-> results[i].message]]

\* what llm.invoke returns, response.content, or that it raised
LLMError == [type |-> "error", value |-> <<>>]

Responses ==
    {PyStr(<<Word("Sure")>>),
     PyStr(WrittenCall("calculator", JDict([expression |-> JStr("2+2")]),
                       "spaced")),
     PyStr(WrittenCall("calculator", EmptyDict, "spaced")),
     PyStr(WrittenCall("note", JDict([expression |-> JStr("2+2")]),
                       "spaced")),
     PyStr(WrittenCall("calculator", JDeep, "spaced")),
     LLMError}

\* call_model(state), the language model answering response: the partial
\* update, or the exception of the step
call_model(seed, response) ==
    IF response = LLMError THEN [raised |-> TRUE]
    ELSE LET tool_call == parse_tool_call(seed, response)
         IN IF DOMAIN tool_call = {"raised"} THEN [raised |-> TRUE]
            ELSE IF tool_call # None
            THEN [raised |-> FALSE,
                  messages |-> <<AIMessage(<<>>, <<tool_call>>)>>]
            ELSE [raised |-> FALSE,
                  messages |-> <<AIMessage(response.value, <<>>)>>]

\* an edge from agent to tools whatever the last message
agent_should_continue_Always(state) == "tools"

\* should_continue of graph.py, the edge after agent
agent_should_continue(state) ==
    IF CarriesToolCalls(state["messages"][Len(state["messages"])])
    THEN "tools"
    ELSE END

\* the invocation of the agent graph in progress, or the outcome of the
\* last one: the graph in use, whether a step ran since it was resumed, the
\* nodes it executed
Run(op, status, hitl, resuming, executed) ==
    [op |-> op, status |-> status, hitl |-> hitl, resuming |-> resuming,
     executed |-> executed]

Running == lastOp.op = "invoke" /\ lastOp.status = "running"

\* the status of an invocation that stands before node next
StatusBefore(next, hitl) ==
    IF next = END THEN "completed"
    ELSE IF hitl /\ next \in AgentInterruptBefore THEN "interrupted"
    ELSE "running"

\* the checkpoint of the step of node that wrote update at the latest
\* checkpoint; messages is an add_messages channel
AgentCheckpoint(st, node, update, next) ==
    Checkpoint(Len(st),
               [messages |-> LatestValues(st)["messages"] \o update.messages],
               next, "loop", node, update, node)

\* graph.invoke({"messages": [HumanMessage(message)]}, config), up to the
\* first node: the input is written and __start__ passes it on to agent
agent_invoke(message, hitl) ==
    LET old == IF store = <<>> THEN <<>>
               ELSE LatestValues(store)["messages"]
        input == [messages |-> <<HumanMessage(message)>>]
        last == IF store = <<>> THEN START ELSE store[Len(store)].lastNode
        written == Append(store,
                          Checkpoint(Len(store), [messages |-> old], START,
                                     "input", START, input, last))
    IN /\ ~Running
       /\ Len(old) < MaxMessages
       /\ store' = Append(written,
                          AgentCheckpoint(written, START, input, "agent"))
       /\ lastOp' = Run("invoke", "running", hitl, FALSE, <<>>)
       /\ UNCHANGED <<stream, other, thread, tooling>>

\* graph.invoke(None, config) on a thread that stands before a node: the
\* node runs whether it is an interrupt node or not
agent_resume(hitl) ==
    /\ ~Running
    /\ LatestNext(store) # END
    /\ lastOp' = Run("invoke", "running", hitl, TRUE, <<>>)
    /\ UNCHANGED <<store, stream, other, thread, tooling>>

\* one step of the invocation: the node agent
agent_step(response) ==
    LET r == call_model(hashSeed, response)
        values == [messages |-> LatestValues(store)["messages"] \o r.messages]
        next == agent_should_continue(values)
    IN /\ Running
       /\ LatestNext(store) = "agent"
       /\ Len(LatestValues(store)["messages"]) < MaxMessages
       /\ content' = response
       /\ IF r.raised
          THEN /\ store' = store
               /\ lastOp' = [lastOp EXCEPT !.status = "error"]
          ELSE /\ store' = Append(store,
                                  AgentCheckpoint(store, "agent", r, next))
               /\ lastOp' = Run("invoke", StatusBefore(next, lastOp.hitl),
                                lastOp.hitl, FALSE,
                                Append(lastOp.executed, "agent"))
       /\ UNCHANGED <<stream, other, thread, hashSeed, invoked>>

\* one step of the invocation: the node tools
tools_step ==
    LET state == LatestValues(store)
        r == call_tools(state)
        calls == state["messages"][Len(state["messages"])].tool_calls
    IN /\ Running
       /\ LatestNext(store) = "tools"
       /\ ~lastOp.hitl \/ lastOp.resuming
       /\ IF r.raised
          THEN /\ store' = store
               /\ lastOp' = [lastOp EXCEPT !.status = "error"]
               /\ invoked' = invoked
          ELSE /\ store' = Append(store,
                                  AgentCheckpoint(store, "tools", r, "agent"))
               /\ lastOp' = Run("invoke", "running", lastOp.hitl, FALSE,
                                Append(lastOp.executed, "tools"))
               /\ invoked' = invoked
                     \o SelectSeq([i \in 1..Len(calls) |->
                                      [name |-> calls[i].name.str,
                                       args |-> calls[i].args,
                                       invokes |-> Invokes(calls[i])]],
                                  LAMBDA c : c.invokes)
       /\ UNCHANGED <<stream, other, thread, content, hashSeed>>

InitAgent ==
    /\ InitTools
    /\ content = PyNone
    /\ hashSeed = 0

NextAgent ==
    \/ \E m \in Messages, h \in BOOLEAN : agent_invoke(m, h)
    \/ \E h \in BOOLEAN : agent_resume(h)
    \/ \E r \in Responses : agent_step(r)
    \/ tools_step

SpecAgent == InitAgent /\ [][NextAgent]_vars

(* ------------------------------------------------------------------ *)
(* Messages as dictionaries: state_manager.py                           *)
(* ------------------------------------------------------------------ *)

\* messages in a list
MaxList == 3

SystemMessage(c) == [type |-> "system", content |-> c]

\* isinstance(msg, BaseMessage)
IsMessage(msg) ==
    "type" \in DOMAIN msg /\ msg.type \in {"human", "ai", "system", "tool"}

\* type(msg).__name__
ClassName(msg) ==
    CASE msg.type = "human" -> "HumanMessage"
      [] msg.type = "ai" -> "AIMessage"
      [] msg.type = "system" -> "SystemMessage"
      [] msg.type = "tool" -> "ToolMessage"

\* getattr(msg, name, default), for the attributes a class may not have
Attr(msg, name, default) ==
    IF name \in DOMAIN msg THEN msg[name] ELSE default

\* dict.get(key, default)
DictGet(d, key, default) == IF key \in DOMAIN d THEN d[key] ELSE default

\* a serialization that leaves the id of the tool call out
serialize_message_NoToolCallId(msg) ==
    LET calls == Attr(msg, "tool_calls", <<>>)
    IN JDict([type |-> ClassName(msg), content |-> msg.content]
             @@ (IF calls # <<>> THEN [tool_calls |-> calls] ELSE <<>>))

\* StateManager._serialize_message
serialize_message(msg) ==
    LET calls == Attr(msg, "tool_calls", <<>>)
        id == Attr(msg, "tool_call_id", "")
    IN JDict([type |-> ClassName(msg), content |-> msg.content]
             @@ (IF calls # <<>> THEN [tool_calls |-> calls] ELSE <<>>)
             @@ (IF id # "" THEN [tool_call_id |-> id] ELSE <<>>))

\* StateManager._serialize_messages
serialize_messages(messages) ==
    [i \in 1..Len(messages) |-> serialize_message(messages[i])]

\* the messages deserialize_messages makes of one entry of messages_data:
\* one, or none for an entry it skips
Converted(msg) ==
    IF IsMessage(msg) THEN <<msg>>
    ELSE IF ~IsDict(msg) THEN <<>>
    ELSE LET d == msg.dict
             msg_type == DictGet(d, "type", "HumanMessage")
             c == DictGet(d, "content", "")
         IN IF msg_type \in {"HumanMessage", "human"} THEN <<HumanMessage(c)>>
            ELSE IF msg_type \in {"AIMessage", "ai"}
            THEN <<AIMessage(c, DictGet(d, "tool_calls", <<>>))>>
            ELSE IF msg_type \in {"SystemMessage", "system"}
            THEN <<SystemMessage(c)>>
            ELSE IF msg_type \in {"ToolMessage", "tool"}
            THEN <<[type |-> "tool", content |-> c,
                    tool_call_id |-> DictGet(d, "tool_call_id",
                                             DictGet(d, "id", ""))]>>
            ELSE <<>>

\* StateManager.deserialize_messages
RECURSIVE deserialize_messages(_)
deserialize_messages(messages_data) ==
    IF messages_data = <<>> THEN <<>>
    ELSE Converted(Head(messages_data))
           \o deserialize_messages(Tail(messages_data))

\* the messages of the lists: of each of the four classes, with and without
\* content, tool calls and the id of a tool call
MessageTexts == {"", "Hello"}

CallsCarried == {<<>>, <<ToolCall("calculator", [expression |-> "2+2"],
                                  "call_1")>>}

MessagePool ==
    {HumanMessage(c) : c \in MessageTexts}
      \cup {SystemMessage(c) : c \in MessageTexts}
      \cup {AIMessage(c, t) : c \in MessageTexts, t \in CallsCarried}
      \cup {[type |-> "tool", content |-> c, tool_call_id |-> id] :
               c \in MessageTexts, id \in {"", "call_1"}}

MessageLists == UNION {[1..n -> MessagePool] : n \in 0..MaxList}

PyList(l) == [type |-> "list", value |-> l]

InitMessages ==
    /\ InitTools
    /\ hashSeed = 0
    /\ content \in {PyList(l) : l \in MessageLists}

\* sm.deserialize_messages(sm._serialize_messages(messages))
RoundTrip ==
    /\ lastOp.op = "init"
    /\ lastOp' = [op |-> "round_trip", messages |-> content.value,
                  serialized |-> serialize_messages(content.value),
                  restored |-> deserialize_messages(
                                   serialize_messages(content.value))]
    /\ UNCHANGED <<store, stream, other, thread, tooling>>

NextMessages == RoundTrip

SpecMessages == InitMessages /\ [][NextMessages]_vars

(* ------------------------------------------------------------------ *)
(* The trip graph node by node, with the searches of its research nodes *)
(* ------------------------------------------------------------------ *)

\* queries the model writes for a research node
MaxQueries == 4

\* the nodes that search
ResearchNodes == {"travel_plan", "travel_critique"}

\* what the search of a query may do
Responses_Search ==
    {SearchError, Found(<<>>), Found(<<"src">>), Found(<<"src", "more">>)}

\* the queries of a research node, one response each
ResponseLists == UNION {[1..n -> Responses_Search] : n \in 0..MaxQueries}

\* the partial update of node n on state s, or the exception of the step
NodeUpdate(n, s, responses) ==
    LET queries == [i \in 1..Len(responses) |-> "q"]
    IN IF n = "travel_plan" THEN travel_plan_searching(s, queries, responses)
       ELSE IF n = "travel_critique"
       THEN travel_critique_searching(s, queries, responses)
       ELSE [raised |-> FALSE, update |-> StepUpdate(n, s)]

InitSearch ==
    /\ InitTools
    /\ hashSeed = 0
    /\ content = PyNone

\* graph.invoke(initial_state, config) on a new thread, up to the first
\* node: the input is written and __start__ passes it on to planner
trip_start(message) ==
    /\ store = <<>>
    /\ store' = Invoke(store, trip_input(message), 0, TRUE, "none").store
    /\ lastOp' = [op |-> "start"]
    /\ UNCHANGED <<stream, other, thread, tooling>>

\* one step of the invocation: the node the thread stands before runs, the
\* searches of a research node doing what responses says; fail: the model
\* call of the node raises, which is before any search
trip_step(responses, fail) ==
    LET n == LatestNext(store)
        r == NodeUpdate(n, LatestValues(store), responses)
        v == Merge(LatestValues(store), r.update)
    IN /\ n \in Nodes
       /\ IF fail \/ r.raised
          THEN /\ store' = store
               /\ lastOp' = [op |-> "step", node |-> n, status |-> "error",
                             responses |-> responses, fail |-> fail]
          ELSE /\ store' = Append(store,
                                  Checkpoint(Len(store), v, NextNode(n, v),
                                             "loop", n, r.update, n))
               /\ lastOp' = [op |-> "step", node |-> n, status |-> "ok",
                             responses |-> responses, fail |-> fail]
       /\ UNCHANGED <<stream, other, thread, tooling>>

\* a step of a node that searches, and a step of a node that does not
research_step(responses, fail) ==
    /\ LatestNext(store) \in ResearchNodes
    /\ fail => responses = <<>>
    /\ trip_step(responses, fail)

plain_step(fail) ==
    LatestNext(store) \notin ResearchNodes /\ trip_step(<<>>, fail)

NextSearch ==
    \/ \E m \in Messages : trip_start(m)
    \/ \E f \in BOOLEAN : plain_step(f)
    \/ \E r \in ResponseLists, f \in BOOLEAN : research_step(r, f)

SpecSearch == InitSearch /\ [][NextSearch]_vars

(* ------------------------------------------------------------------ *)
(* A thread whose steps succeed and whose pauses are approved           *)
(* ------------------------------------------------------------------ *)

\* the values a caller may give max_revisions
RevisionLimits == {0, 3}

\* POST /runs/resume with approved = true and no step raising: it is taken
\* whatever the length of the history
approve ==
    LET r == ResumeAgentResult(store, TRUE, None, "none")
    IN /\ store' = r.store
       /\ lastOp' = [modified |-> FALSE]
                       @@ Op("resume",
                             IF LatestNext(store) = END \/ r.error
                             THEN "error" ELSE "completed",
                             r, TRUE, TRUE, TRUE, Len(store))
       /\ UNCHANGED <<stream, other, thread, tooling>>

\* POST /runs/resume with approved = false
reject ==
    /\ resume_agent(FALSE, None, "none")
    /\ UNCHANGED <<stream, other, thread, tooling>>

\* POST /threads/{thread_id}/update with a new max_revisions, on a thread
\* that was started
set_max_revisions(m) ==
    /\ store # <<>>
    /\ update_state([max_revisions |-> m])
    /\ UNCHANGED <<stream, other, thread, tooling>>

\* POST /runs/invoke with no step raising
run(message, use_hitl) ==
    /\ invoke_agent(message, use_hitl, "none")
    /\ UNCHANGED <<stream, other, thread, tooling>>

NextLive ==
    \/ \E m \in Messages, h \in BOOLEAN : run(m, h)
    \/ approve
    \/ reject
    \/ \E m \in RevisionLimits : set_max_revisions(m)

\* every pause is eventually approved
SpecLive == Init /\ [][NextLive]_vars /\ WF_vars(approve)

(* ------------------------------------------------------------------ *)
(* Model parameters of a thread: update_parameters                      *)
(* ------------------------------------------------------------------ *)

\* values of the request body, as request.json() decodes them: numbers are
\* Num, of type int or float
Text(s) == [t |-> "str", s |-> s]

Null == [t |-> "NoneType"]

TemperatureValues ==
    {Num("int", 1, 1), Num("float", 1, 2), Num("float", 3, 2), Text("0.5"),
     Text("abc")}

TokenValues ==
    {Num("int", 1, 1), Num("float", 1, 2), Num("float", 3, 2), Text("0.5"),
     Null}

\* the request bodies: a dict with none, one or both of the parameters
Bodies ==
    {<<>>}
      \cup {[temperature |-> t] : t \in TemperatureValues}
      \cup {[max_tokens |-> m] : m \in TokenValues}
      \cup {[temperature |-> t, max_tokens |-> m] :
               t \in TemperatureValues, m \in TokenValues}

\* float(x): a number keeps its value, a str is parsed, None is a TypeError
float(x) ==
    IF x.t \in {"int", "float"} THEN Value(Num("float", x.n, x.d))
    ELSE IF x = Text("0.5") THEN Value(Num("float", 1, 2))
    ELSE IF x.t = "str" THEN Exception("ValueError")
    ELSE Exception("TypeError")

\* int(x): a float is truncated towards zero; of the strs sent none writes
\* an integer
int(x) ==
    IF x.t = "int" THEN Value(x)
    ELSE IF x.t = "float"
    THEN Value(Num("int", IF x.n >= 0 THEN x.n \div x.d
                          ELSE -((-x.n) \div x.d), 1))
    ELSE IF x.t = "str" THEN Exception("ValueError")
    ELSE Exception("TypeError")

\* the outcome of the checks of update_parameters: the entries put in
\* updates, or the status of the HTTPException
Accepted(updates) == [ok |-> TRUE, updates |-> updates]

Refused(status) == [ok |-> FALSE, status |-> status]

\* except ValueError: 400; except Exception: 500
Unconverted(error) ==
    Refused(IF error = "ValueError" THEN "bad_request" ELSE "error")

\* if "temperature" in body: ... updates["temperature"] = temp
CheckedTemperature(body) ==
    IF ~Has(body, "temperature") THEN Accepted(<<>>)
    ELSE IF ~float(body["temperature"]).ok
    THEN Unconverted(float(body["temperature"]).error)
    ELSE IF ~(/\ 0 <= float(body["temperature"]).value.n
              /\ float(body["temperature"]).value.n
                    <= float(body["temperature"]).value.d)
    THEN Refused("bad_request")
    ELSE Accepted([temperature |-> float(body["temperature"]).value])

\* if "max_tokens" in body: ... updates["max_tokens"] = tokens
CheckedTokens(body) ==
    IF ~Has(body, "max_tokens") THEN Accepted(<<>>)
    ELSE IF ~int(body["max_tokens"]).ok
    THEN Unconverted(int(body["max_tokens"]).error)
    ELSE IF int(body["max_tokens"]).value.n < 1
    THEN Refused("bad_request")
    ELSE Accepted([max_tokens |-> int(body["max_tokens"]).value])

\* the checks in the order of the handler, up to "if not updates"
ParameterUpdates(body) ==
    IF ~CheckedTemperature(body).ok THEN CheckedTemperature(body)
    ELSE IF ~CheckedTokens(body).ok THEN CheckedTokens(body)
    ELSE IF DOMAIN body = {} THEN Refused("bad_request")
    ELSE Accepted(CheckedTemperature(body).updates
                     @@ CheckedTokens(body).updates)

\* the outcome of the handler: r is what graph.update_state did
ParametersDone(r) ==
    [status |-> IF r.error THEN "error" ELSE "updated"] @@ r

ParametersRefused(st, status) ==
    [store |-> st, executed |-> <<>>, error |-> TRUE, status |-> status]

\* a handler that writes each parameter as soon as it has checked it
ParametersResult_Eager(st, body) ==
    IF ~CheckedTemperature(body).ok
    THEN ParametersRefused(st, CheckedTemperature(body).status)
    ELSE IF ~CheckedTokens(body).ok
    THEN IF Has(body, "temperature")
         THEN ParametersRefused(
                  UpdateState(st, CheckedTemperature(body).updates).store,
                  CheckedTokens(body).status)
         ELSE ParametersRefused(st, CheckedTokens(body).status)
    ELSE IF DOMAIN body = {} THEN ParametersRefused(st, "bad_request")
    ELSE ParametersDone(UpdateState(st, ParameterUpdates(body).updates))

\* update_parameters on a thread whose checkpoints are st: the checks, then
\* StateManager.update_state_values(updates)
ParametersResult(st, body) ==
    IF ~ParameterUpdates(body).ok
    THEN ParametersRefused(st, ParameterUpdates(body).status)
    ELSE ParametersDone(UpdateState(st, ParameterUpdates(body).updates))

\* POST /threads/{thread_id}/parameters
update_parameters(body) ==
    /\ WithinBounds(ParametersResult(store, body).store)
    /\ store' = ParametersResult(store, body).store
    /\ lastOp' = [body |-> body]
                    @@ Op("update_parameters",
                          ParametersResult(store, body).status,
                          ParametersResult(store, body), FALSE, FALSE, FALSE,
                          Len(store))
    /\ UNCHANGED <<stream, other, thread, tooling>>

\* run, resume, prompt updates and parameter updates in any order
NextParams ==
    \/ \E m \in Messages, h \in BOOLEAN : run(m, h)
    \/ \E a \in BOOLEAN :
          resume_agent(a, None, "none")
             /\ UNCHANGED <<stream, other, thread, tooling>>
    \/ \E n \in PromptNames, p \in Prompts :
          update_prompt(n, p) /\ UNCHANGED <<stream, other, thread, tooling>>
    \/ \E b \in Bodies : update_parameters(b)

SpecParams == Init /\ [][NextParams]_vars

(* ------------------------------------------------------------------ *)
(* Notions the properties use                                           *)
(* ------------------------------------------------------------------ *)

\* st is kept as the first checkpoints of st2, unchanged
Kept(st, st2) ==
    /\ Len(st) <= Len(st2)
    /\ \A i \in 1..Len(st) : st2[i] = st[i]

\* the positions k > 1 of the nodes a handler executed
Later(executed) == 2..Len(executed)

\* the handler of this step resumed a checkpoint that waits before node n
ResumedAt(n) ==
    /\ lastOp'.resuming
    /\ lastOp'.from \in 1..Len(store)
    /\ store[lastOp'.from].next = n

(* ------------------------------------------------------------------ *)
(* C1                                                                   *)
(* ------------------------------------------------------------------ *)

Rejected(s) == [s EXCEPT !["messages"] = @ \o <<"rejected">>]

\* C3: a resume with approved = false on a thread that has a pending node
\* executes no step function; it appends one checkpoint whose state is the
\* previous state with the rejection marker appended to messages, and the
\* pending node stays pending.
C3_RejectOnlyAppendsMarker ==
    [][(lastOp'.op = "resume" /\ ~lastOp'.approved /\ LatestNext(store) # END)
       => /\ lastOp'.executed = <<>>
          /\ lastOp'.status = "rejected"
          /\ Kept(store, store')
          /\ Len(store') = Len(store) + 1
          /\ LatestValues(store') = Rejected(LatestValues(store))
          /\ LatestNext(store') = LatestNext(store)]_vars

\* a rejection was recorded on a thread that waited before reflect
C3_Witness ==
    /\ lastOp.op = "resume"
    /\ ~lastOp.approved
    /\ lastOp.status = "rejected"
    /\ Len(store) = lastOp.base + 1
    /\ lastOp.base > 0
    /\ store[lastOp.base].next = "reflect"
    /\ LatestNext(store) = "reflect"
    /\ LatestValues(store) = Rejected(store[lastOp.base].values)

(* ------------------------------------------------------------------ *)
(* C4                                                                   *)
(* ------------------------------------------------------------------ *)

\* checkpoint i was written after a node's step function ran
ByNode(st, i) == st[i].source = "loop" /\ st[i].node \in Nodes

\* the generation passes on the chain of checkpoint i since the thread was
\* last started
RECURSIVE Passes(_, _)
Passes(st, i) ==
    IF i = 0 \/ st[i].source = "input"
    THEN 0
    ELSE Passes(st, st[i].parent)
         + (IF ByNode(st, i) /\ st[i].node = "generate" THEN 1 ELSE 0)

\* no caller supplied revision_number or max_revisions: no update_state call
\* wrote either, and every input is the one a run creates
NoRevisionEdits(st) ==
    \A i \in 1..Len(st) :
        /\ st[i].source = "update"
             => DOMAIN st[i].writes \cap {"revision_number", "max_revisions"} = {}
        /\ st[i].source = "input"
             => {"revision_number", "max_revisions"} \subseteq DOMAIN st[i].writes

C5_EdgeAfterGeneration ==
    \A i \in 1..Len(store) :
        ByNode(store, i)
        => IF store[i].node = "generate"
           THEN /\ store[i].values["revision_number"]
                     = Get(store[store[i].parent].values, "revision_number", 0) + 1
                /\ store[i].next
                     = (IF store[i].values["revision_number"]
                             >= store[i].values["max_revisions"]
                        THEN END ELSE "reflect")
           ELSE store[i].next \in Nodes

\* generate ran twice on one chain: the first pass went on to reflect, the
\* second to the end
C5_Witness ==
    \E i, j \in 1..Len(store) :
        /\ ByNode(store, i) /\ store[i].node = "generate"
        /\ ByNode(store, j) /\ store[j].node = "generate"
        /\ store[i].next = "reflect"
        /\ store[j].next = END
        /\ store[i].values["revision_number"] < store[i].values["max_revisions"]
        /\ store[j].values["revision_number"] >= store[j].values["max_revisions"]

(* ------------------------------------------------------------------ *)
(* C6                                                                   *)
(* ------------------------------------------------------------------ *)

\* revision_number of state s, 0 while it is not set
Revision(s) == Get(s, "revision_number", 0)

\* C6 as stated: the revision_number of the thread's current state never
\* becomes smaller, whatever the operation.
C6_AsStated ==
    [][Len(store) > 0
       => Revision(LatestValues(store')) >= Revision(LatestValues(store))]_vars

\* the handler of this step supplies no revision_number and does not move
\* the thread to another checkpoint: a resume, a run on a thread that has a
\* task, or an update_state of other fields
KeepsRevision ==
    \/ lastOp'.op = "resume"
    \/ lastOp'.op = "run" /\ HasTask(store)
    \/ /\ lastOp'.op = "update_state"
       /\ Len(store') = Len(store) + 1
       /\ ~Has(store'[Len(store')].writes, "revision_number")

\* C6 (amended): every node execution leaves revision_number as it was,
\* except generate, which adds exactly one; so the current revision_number
\* never becomes smaller under resume, run on a thread that has a task and
\* update_state of other fields.  It becomes smaller only when a caller sets
\* it (update_state), when resume_from moves the thread to an earlier
\* checkpoint, or when a run starts the thread again.
C6_RevisionNonDecreasing ==
    [][/\ \A i \in 1..Len(store') :
             ByNode(store', i)
             => Revision(store'[i].values)
                  = Revision(store'[store'[i].parent].values)
                    + (IF store'[i].node = "generate" THEN 1 ELSE 0)
       /\ (Len(store) > 0 /\ KeepsRevision)
             => Revision(LatestValues(store')) >= Revision(LatestValues(store))]_vars

\* a resume executed generate for the second time
C6_Witness ==
    /\ lastOp.op = "resume"
    /\ lastOp.approved
    /\ lastOp.executed = <<"generate">>
    /\ ~lastOp.error
    /\ lastOp.base > 0
    /\ Revision(store[lastOp.base].values) = 1
    /\ Revision(LatestValues(store)) = 2

(* ------------------------------------------------------------------ *)
(* C7                                                                   *)
(* ------------------------------------------------------------------ *)

MaxRevisionsFromRunOnly(st) ==
    \A i \in 1..Len(st) :
        Has(st[i].writes, "max_revisions") => st[i].source = "input"

Terminal(st) == Len(st) > 0 /\ LatestNext(st) = END

\* C8: a run on a thread whose latest checkpoint has no pending node appends
\* no checkpoint and leaves the thread's state as it was, however often it is
\* repeated.
C8_RunOnTerminalThread ==
    [][(lastOp'.op = "run" /\ Terminal(store)) => store' = store]_vars

(* ------------------------------------------------------------------ *)
(* C9                                                                   *)
(* ------------------------------------------------------------------ *)

\* the partial update that checkpoint i applies to the state of its parent:
\* nothing for the checkpoint that records an input, the recorded input for
\* the step that consumes it, the recorded writes otherwise
PartialUpdate(st, i) ==
    IF st[i].source = "input" THEN <<>>
    ELSE IF st[i].source = "loop" /\ st[i].node = START
    THEN st[st[i].parent].writes
    ELSE st[i].writes

\* the left fold of the reducer over the partial updates on the chain from
\* the root to checkpoint i
RECURSIVE Replay(_, _)
Replay(st, i) ==
    IF i = 0
    THEN EmptyChannels
    ELSE Merge(Replay(st, st[i].parent), PartialUpdate(st, i))

RECURSIVE OnChain(_, _, _)
OnChain(st, i, c) ==
    IF i = 0 THEN FALSE
    ELSE IF i = c THEN TRUE
    ELSE OnChain(st, st[i].parent, c)

\* the checkpoints downstream of c
Downstream(st, c) == {i \in 1..Len(st) : i # c /\ OnChain(st, i, c)}

C11_AppendOnly ==
    [][Kept(store, store')]_vars

\* update_state_value wrote a prompt on a thread that has checkpoints
C11_Witness ==
    /\ lastOp.op = "update_prompt"
    /\ lastOp.status = "updated"
    /\ lastOp.base > 0
    /\ Len(store) = lastOp.base + 1
    /\ LatestValues(store)["planner_prompt"] = "prompt"

(* ------------------------------------------------------------------ *)
(* C12                                                                  *)
(* ------------------------------------------------------------------ *)

\* the last element of a non-empty sequence
Last(seq) == seq[Len(seq)]

\* the handler of this step called a step function that raised
StepFailed ==
    /\ lastOp'.op \in {"run", "resume", "resume_from"}
    /\ lastOp'.error
    /\ lastOp'.executed # <<>>

MergedByPolicy(old, u, v) ==
    /\ DOMAIN v = (DOMAIN old) \cup (DOMAIN u)
    /\ \A f \in DOMAIN v :
          IF f \notin DOMAIN u THEN v[f] = old[f]
          ELSE IF f \notin DOMAIN old THEN v[f] = u[f]
          ELSE IF f = "messages" THEN v[f] = old[f] \o u[f]
          ELSE IF f = "count" THEN v[f] = old[f] + u[f]
          ELSE v[f] = u[f]

\* C13: update_state and update_state_fields append exactly one checkpoint,
\* whose state is the current state with the supplied partial update merged
\* by the same policy as a node's update (messages concatenated, count
\* summed, every other field replaced), and execute no node.
C13_UpdateStateMerges ==
    [][(/\ lastOp'.op \in {"update_state", "update_state_fields"}
        /\ lastOp'.status = "updated")
       => /\ Len(store') = Len(store) + 1
          /\ Kept(store, store')
          /\ lastOp'.executed = <<>>
          /\ store'[Len(store')].source = "update"
          /\ MergedByPolicy(IF Len(store) = 0 THEN EmptyChannels
                            ELSE LatestValues(store),
                            store'[Len(store')].writes,
                            LatestValues(store'))]_vars

\* update_state_fields added a message, a count and a draft to a thread
\* that had messages and a count
C13_Witness ==
    /\ lastOp.op = "update_state_fields"
    /\ lastOp.status = "updated"
    /\ lastOp.base > 0
    /\ store[lastOp.base].values["count"] = 2
    /\ LatestValues(store)["count"] = 3
    /\ LatestValues(store)["messages"]
          = store[lastOp.base].values["messages"] \o <<"tool_call">>
    /\ Len(LatestValues(store)["messages"]) = 4
    /\ LatestValues(store)["draft"] = "edit"

\* C14: the state of the checkpoint a node writes is the state the node
\* started from with its partial update merged: messages concatenated, count
\* summed, every other key of the update overwritten, and every key the
\* update leaves out unchanged.
C14_MergeChangesOnlyUpdatedKeys ==
    \A i \in 1..Len(store) :
        ByNode(store, i)
        => MergedByPolicy(store[store[i].parent].values, store[i].writes,
                          store[i].values)

\* generate merged its update into a state that had a plan, two messages
\* and a count
C14_Witness ==
    \E i \in 1..Len(store) :
        /\ ByNode(store, i)
        /\ store[i].node = "generate"
        /\ DOMAIN store[i].writes
             = {"draft", "revision_number", "count", "messages"}
        /\ store[store[i].parent].values["count"] = 2
        /\ store[i].values["count"] = 3
        /\ Len(store[i].values["messages"]) = 4
        /\ store[i].values["plan"] = "plan"
        /\ store[i].values["draft"] = "draft"

(* ------------------------------------------------------------------ *)
(* C15                                                                  *)
(* ------------------------------------------------------------------ *)

\* C15: after update_state_value(key, value), called by update_prompt on a
\* thread that has checkpoints, field key holds value and every other field
\* of the current state, messages and count included, is what it was before.
C15_UpdatesSingleValue ==
    [][(/\ lastOp'.op = "update_prompt"
        /\ lastOp'.status = "updated"
        /\ Len(store) > 0)
       => LET before == LatestValues(store)
              after == LatestValues(store')
          IN /\ \E n \in PromptNames : after[n] \in Prompts
             /\ \A f \in (DOMAIN after) \ PromptNames :
                   f \in DOMAIN before /\ after[f] = before[f]]_vars

(* ------------------------------------------------------------------ *)
(* C18                                                                  *)
(* ------------------------------------------------------------------ *)

\* C18: a resume on a thread that has no pending node, a thread without
\* checkpoints included, reports an error, executes no node and leaves the
\* checkpoints as they were.
C18_ResumeNotPaused ==
    [][(lastOp'.op = "resume" /\ LatestNext(store) = END)
       => /\ lastOp'.status = "error"
          /\ lastOp'.executed = <<>>
          /\ store' = store]_vars

\* a resume was refused on a thread that ran to the end
C18_Witness ==
    /\ lastOp.op = "resume"
    /\ lastOp.approved
    /\ lastOp.status = "error"
    /\ lastOp.executed = <<>>
    /\ Terminal(store)
    /\ Len(store) = lastOp.base

(* ------------------------------------------------------------------ *)
(* C19                                                                  *)
(* ------------------------------------------------------------------ *)

\* C19: resume_from and rewind with a checkpoint id the thread does not have
\* report not-found, execute no node and append no checkpoint.
C19_CheckpointNotFound ==
    [][(/\ lastOp'.op \in {"resume_from", "rewind"}
        /\ lastOp'.from \notin 1..Len(store))
       => /\ lastOp'.status = "not_found"
          /\ lastOp'.executed = <<>>
          /\ store' = store]_vars

\* a resume_from with an input named a checkpoint the thread does not have
C19_Witness ==
    /\ lastOp.op = "resume_from"
    /\ ~lastOp.resuming
    /\ lastOp.status = "not_found"
    /\ lastOp.base > 0
    /\ lastOp.from = lastOp.base + 1
    /\ Len(store) = lastOp.base

(* ------------------------------------------------------------------ *)
(* C20                                                                  *)
(* ------------------------------------------------------------------ *)

\* C20: run, resume and resume_from report interrupted whenever the thread
\* has a pending node afterwards, and completed only when it has none.
C20_StatusMatchesPosition ==
    [][(/\ lastOp'.op \in {"run", "resume", "resume_from"}
        /\ lastOp'.status \in {"interrupted", "completed"})
       => (lastOp'.status = "interrupted" <=> LatestNext(store') # END)]_vars

(* ------------------------------------------------------------------ *)
(* C16                                                                  *)
(* ------------------------------------------------------------------ *)

\* C16: the requests for one thread (invoke, stream, resume) execute the
\* thread's steps strictly one after the other: no two step executions start
\* from the same checkpoint.  (A step function is a synchronous call, here
\* one action, so that two never run at the same instant.)
C16_OneStepPerCheckpoint ==
    \A i, j \in 1..Len(store) :
        (i # j /\ ByNode(store, i) /\ ByNode(store, j))
        => store[i].parent # store[j].parent

(* ------------------------------------------------------------------ *)
(* C17                                                                  *)
(* ------------------------------------------------------------------ *)

\* C17: threads are independent: a run, resume, update_state or resume_from
\* for thread A leaves the checkpoints of thread B (and so its current state
\* and next) as they were, and one for thread B leaves those of thread A, in
\* every interleaving of the requests for the two threads.
C17_ThreadsIndependent ==
    [][/\ thread' = "A" => other' = other
       /\ thread' = "B" => store' = store]_vars

\* a request for thread B moved it while thread A, which has checkpoints
\* and a pending node, stayed as it was
C17_Witness ==
    /\ thread = "B"
    /\ Len(other) > 2
    /\ Len(store) > 2
    /\ LatestNext(store) = "generate"
    /\ LatestNext(other) = "reflect"

(* ------------------------------------------------------------------ *)
(* Notions the properties of tool-call detection use                    *)
(* ------------------------------------------------------------------ *)

\* the last call of parse_tool_call was given a str
ParsedText == lastOp.op = "parse_tool_call" /\ lastOp.content.type = "str"

IsToolCall(r) == DOMAIN r = {"name", "args", "id"}

\* r is a ToolCall of tool name with arguments args
IsCallOf(r, name, args) ==
    IsToolCall(r) /\ r.name = JStr(name) /\ r.args = args

\* white space around a text
Blank == {<<>>, <<Space>>}

\* the prose around an embedded object
Prose == {<<Word("Sure"), Space>>, <<Space, Word("ok")>>}

\* t is the object of a tool call in one of layouts and nothing else
IsWholeObject(t, name, args, layouts) ==
    \E l \in layouts, p \in Blank, s \in Blank :
       t = p \o WrittenCall(name, args, l) \o s

(* ------------------------------------------------------------------ *)
(* C22                                                                  *)
(* ------------------------------------------------------------------ *)

\* C22: the layers are applied in order and the first success wins: a text
\* that is exactly a JSON object with the keys tool and args yields a
\* ToolCall whose name and args are the values of the object, and a text
\* that has neither the strict form nor the embedded pattern yields none.
C22_LayersInOrder ==
    ParsedText =>
      LET t == lastOp.content.value
          strict == StrictParse(lastOp.seed, strip(t))
      IN /\ \A n \in ToolNames, a \in ArgsWritten :
              IsWholeObject(t, n, a, Layouts)
                => IsCallOf(lastOp.result, n, a) /\ lastOp.result = strict
         /\ (strict = None /\ ~re_search(strip(t)).matched)
              => lastOp.result = None

(* ------------------------------------------------------------------ *)
(* C23                                                                  *)
(* ------------------------------------------------------------------ *)

\* C23: the strict layer accepts an object only when tool and args are its
\* only top-level keys: for an object that carries a third key the strict
\* layer returns no ToolCall.
C23_StrictExactlyTwoKeys ==
    ParsedText =>
      \A n \in ToolNames, a \in ArgsWritten \ {JDeep} :
         IsWholeObject(lastOp.content.value, n, a, {"extra_key"})
           => ~IsToolCall(StrictParse(lastOp.seed,
                                      strip(lastOp.content.value)))

(* ------------------------------------------------------------------ *)
(* C24                                                                  *)
(* ------------------------------------------------------------------ *)

\* C24: a well-formed object of the two keys, its arguments empty, flat or
\* nested, with prose before it or after it, yields the ToolCall of that
\* object's name and arguments.
C24_EmbeddedObjectFound ==
    ParsedText =>
      \A n \in ToolNames, a \in ArgsWritten \ {JDeep},
         l \in {"compact", "spaced"},
         p \in Leading, s \in Trailing :
         (/\ p \in Prose \/ s \in Prose
          /\ lastOp.content.value = p \o WrittenCall(n, a, l) \o s)
           => IsCallOf(lastOp.result, n, a)

(* ------------------------------------------------------------------ *)
(* C25                                                                  *)
(* ------------------------------------------------------------------ *)

\* C25: parse_tool_call never raises: whatever it is given, a str or not,
\* it returns a ToolCall or none; and a text whose JSON is malformed, as a
\* whole and inside the pattern, yields none.
C25_NeverRaises ==
    lastOp.op = "parse_tool_call" =>
      /\ IsToolCall(lastOp.result) \/ lastOp.result = None
      /\ (/\ lastOp.content.type = "str"
          /\ LET t == strip(lastOp.content.value)
                 match == re_search(t)
             IN /\ ~json_loads(t).ok
                /\ json_loads(t).error = "JSONDecodeError"
                /\ match.matched => ~json_loads(match.args_str).ok)
           => lastOp.result = None

(* ------------------------------------------------------------------ *)
(* C26                                                                  *)
(* ------------------------------------------------------------------ *)

\* C26: the call_id is a function of the text alone: two detections of the
\* same text, by the same interpreter or by two, give the same call_id.
C26_CallIdOfTextAlone ==
    [][(/\ lastOp.op = "parse_tool_call"
        /\ lastOp'.op = "parse_tool_call"
        /\ lastOp'.content = lastOp.content
        /\ IsToolCall(lastOp.result)
        /\ IsToolCall(lastOp'.result))
       => lastOp'.result.id = lastOp.result.id]_vars

(* ------------------------------------------------------------------ *)
(* C29                                                                  *)
(* ------------------------------------------------------------------ *)

Count(e, c) == Cardinality({i \in 1..Len(e) : e[i] = c})

\* the parentheses of e do not pair up
Unbalanced(e) == Count(e, "(") # Count(e, ")")

\* e is a number divided by zero
DividesByZero(e) ==
    \/ Len(e) = 3 /\ IsDigit(e[1]) /\ e[2] = "/" /\ e[3] = "0"
    \/ Len(e) = 4 /\ IsDigit(e[1]) /\ e[2] = "/" /\ e[3] = "/" /\ e[4] = "0"

\* C29: calculator never raises, it returns a result string for every
\* expression: an expression with a character outside the digits,
\* + - * / ( ) . and the space yields an error result and is not evaluated;
\* an expression of allowed characters whose evaluation fails (a division
\* by zero, parentheses that do not pair up, any other failure of eval)
\* yields an error result too.
C29_CalculatorNeverRaises ==
    lastOp.op = "calculator" =>
      LET e == lastOp.expression
          r == lastOp.result
          allowed == \A i \in 1..Len(e) : e[i] \in allowed_chars
      IN /\ r.prefix \in {"Result", "Error"}
         /\ ~allowed => r.prefix = "Error" /\ ~r.evaluated
         /\ (allowed /\ (Unbalanced(e) \/ DividesByZero(e) \/ ~eval(e).ok))
              => r.prefix = "Error" /\ r.evaluated

\* calculator was given 2/0 and returned the error of the division
C29_Witness ==
    /\ lastOp.op = "calculator"
    /\ lastOp.expression = <<"2", "/", "0">>
    /\ lastOp.result.prefix = "Error"
    /\ lastOp.result.body = "ZeroDivisionError"

(* ------------------------------------------------------------------ *)
(* C21                                                                  *)
(* ------------------------------------------------------------------ *)

\* the last message of the thread carries a tool call
ToolCallPending(st) ==
    /\ LatestNext(st) # END
    /\ Has(LatestValues(st), "messages")
    /\ LatestValues(st)["messages"] # <<>>
    /\ HasToolCalls(LatestValues(st)["messages"]
                      [Len(LatestValues(st)["messages"])])

\* C21: a resume that approves a pending tool call and gives modified_args
\* executes the call with the modified arguments: a tool is invoked once,
\* with these arguments, and not with the original ones.
C21_ModifiedArgsExecuted ==
    [][(/\ ToolCallPending(store)
        /\ lastOp'.op = "resume"
        /\ lastOp'.modified
        /\ lastOp'.status = "completed")
       => /\ Len(invoked') = Len(invoked) + 1
          /\ invoked'[Len(invoked')].args = [expression |-> "2*3"]]_vars

(* ------------------------------------------------------------------ *)
(* The tools node of the agent graph                                    *)
(* ------------------------------------------------------------------ *)

\* the messages of the agent thread
AgentMessages(st) == LatestValues(st)["messages"]

\* the tool calls the tools node is about to run
PendingCalls ==
    IF Running /\ LatestNext(store) = "tools"
    THEN AgentMessages(store)[Len(AgentMessages(store))].tool_calls
    ELSE <<>>

\* the tools node ran on calls: its checkpoint is written, calls' results,
\* of the given kind, are appended to the message log one per call and in
\* the order of the calls, and the thread stands before agent
ToolsStepDone(calls, prefixes) ==
    /\ lastOp'.status # "error"
    /\ Len(store') = Len(store) + 1
    /\ store'[Len(store')].node = "tools"
    /\ LatestNext(store') = "agent"
    /\ Len(AgentMessages(store')) = Len(AgentMessages(store)) + Len(calls)
    /\ SubSeq(AgentMessages(store'), 1, Len(AgentMessages(store)))
          = AgentMessages(store)
    /\ \A i \in 1..Len(calls) :
          LET message == AgentMessages(store')[Len(AgentMessages(store)) + i]
          IN /\ message.type = "tool"
             /\ message.tool_call_id = calls[i].id
             /\ message.name = calls[i].name.str
             /\ message.content.prefix \in prefixes

\* C27: when the tool call names a tool that is not in the registry,
\* call_tools does not raise: the tools step writes its checkpoint, a tool
\* message saying that the tool was not found, with the id of the call, is
\* appended to the messages as the result of a tool is, no tool is called,
\* and the thread continues to agent.
C27_UnknownToolNotFound ==
    [][(/\ PendingCalls # <<>>
        /\ \A i \in 1..Len(PendingCalls) : ~Invokes(PendingCalls[i]))
       => /\ ToolsStepDone(PendingCalls, {"Tool not found"})
          /\ AgentMessages(store')[Len(AgentMessages(store'))].content.body
                = PendingCalls[Len(PendingCalls)].name.str
          /\ invoked' = invoked]_vars

\* the tools node answered a call of a tool that is not in the registry, and
\* the thread stands before agent
C27_Witness ==
    /\ store # <<>>
    /\ store[Len(store)].node = "tools"
    /\ LatestNext(store) = "agent"
    /\ lastOp.op = "invoke"
    /\ lastOp.status = "running"
    /\ LET message == AgentMessages(store)[Len(AgentMessages(store))]
       IN /\ message.type = "tool"
          /\ message.name \notin tools_by_name
          /\ message.content.prefix = "Tool not found"

\* the tool of the call is in the registry and its execution raises
ToolRaises(tool_call) ==
    /\ Invokes(tool_call)
    /\ ~ToolInvoke(tool_call.name.str, tool_call.args).ok

\* C28: when the execution of a registered tool raises, call_tools catches
\* the exception: the tools step completes and writes its checkpoint, a tool
\* message carrying the message of the exception is appended with the id of
\* the call, and the invocation does not fail.
C28_ToolExceptionCaught ==
    [][(/\ PendingCalls # <<>>
        /\ \A i \in 1..Len(PendingCalls) : ToolRaises(PendingCalls[i]))
       => /\ ToolsStepDone(PendingCalls, {"Error executing tool"})
          /\ AgentMessages(store')[Len(AgentMessages(store'))].content.body
                = ToolInvoke(PendingCalls[Len(PendingCalls)].name.str,
                             PendingCalls[Len(PendingCalls)].args).error]_vars

\* the tools node answered a call of a registered tool that raised, and the
\* thread stands before agent
C28_Witness ==
    /\ store # <<>>
    /\ store[Len(store)].node = "tools"
    /\ LatestNext(store) = "agent"
    /\ lastOp.op = "invoke"
    /\ lastOp.status = "running"
    /\ invoked # <<>>
    /\ LET message == AgentMessages(store)[Len(AgentMessages(store))]
       IN /\ message.type = "tool"
          /\ message.name \in tools_by_name
          /\ message.content.prefix = "Error executing tool"

(* ------------------------------------------------------------------ *)
(* Rewind                                                               *)
(* ------------------------------------------------------------------ *)

\* C30: after a rewind that answers "rewound" for checkpoint c, the state
\* and the next nodes that get_state returns for the thread are those of
\* checkpoint c.
C30_RewoundThreadIsAtCheckpoint ==
    [][(/\ lastOp'.op = "rewind"
        /\ lastOp'.status = "rewound")
       => /\ LatestValues(store') = store'[lastOp'.from].values
          /\ LatestNext(store') = store'[lastOp'.from].next]_vars

(* ------------------------------------------------------------------ *)
(* Messages as dictionaries                                             *)
(* ------------------------------------------------------------------ *)

\* the attributes of a message that a round trip has to keep
SameMessage(a, b) ==
    /\ a.type = b.type
    /\ a.content = b.content
    /\ Attr(a, "tool_calls", <<>>) = Attr(b, "tool_calls", <<>>)
    /\ Attr(a, "tool_call_id", "") = Attr(b, "tool_call_id", "")

\* C31: deserialize_messages(_serialize_messages(list)) has the length and
\* the order of list, and each of its messages has the type, the content,
\* the tool calls and the tool call id of the message it was made of.
C31_RoundTrip ==
    lastOp.op = "round_trip"
    => /\ Len(lastOp.restored) = Len(lastOp.messages)
       /\ \A i \in 1..Len(lastOp.messages) :
             SameMessage(lastOp.restored[i], lastOp.messages[i])

\* a list with a message of each of the classes that carry more than
\* content went through the round trip: an AI message with a tool call and
\* a tool message with the id of a call, as dictionaries with these keys
C31_Witness ==
    /\ lastOp.op = "round_trip"
    /\ Len(lastOp.messages) = MaxList
    /\ \E i, j \in 1..Len(lastOp.messages) :
          /\ lastOp.messages[i].type = "ai"
          /\ lastOp.messages[i].tool_calls # <<>>
          /\ "tool_calls" \in DOMAIN lastOp.serialized[i].dict
          /\ lastOp.serialized[i].dict["type"] = "AIMessage"
          /\ lastOp.messages[j].type = "tool"
          /\ lastOp.messages[j].tool_call_id = "call_1"
          /\ "tool_call_id" \in DOMAIN lastOp.serialized[j].dict
    /\ \E k \in 1..Len(lastOp.messages) : lastOp.messages[k].type = "human"

(* ------------------------------------------------------------------ *)
(* Search errors in the research nodes                                  *)
(* ------------------------------------------------------------------ *)

\* the contents of the responses that did not raise, in the order of the
\* queries
RECURSIVE Kept_Results(_)
Kept_Results(responses) ==
    IF responses = <<>> THEN <<>>
    ELSE (IF Head(responses).raised THEN <<>> ELSE Head(responses).results)
           \o Kept_Results(Tail(responses))

\* the queries a research node searches
SearchLimit(n) == IF n = "travel_plan" THEN 3 ELSE 2

\* the contents a research node starts from
ContentBefore(n, s) ==
    IF n = "travel_plan" THEN <<>> ELSE Get(s, "content", <<>>)

\* C32: when the search of a query raises in travel_plan_node or
\* travel_critique_node and the model calls of the node succeed, the step
\* does not fail and writes its checkpoint, and content is what the node
\* started from followed by the results of the other queries, the failed
\* query contributing none.
C32_SearchErrorIsNoResult ==
    [][(/\ lastOp'.op = "step"
        /\ lastOp'.node \in ResearchNodes
        /\ LatestNext(store) = lastOp'.node
        /\ \E i \in 1..Len(lastOp'.responses) :
              /\ i <= SearchLimit(lastOp'.node)
              /\ lastOp'.responses[i].raised
        /\ ~lastOp'.fail)
       => /\ lastOp'.status = "ok"
          /\ Len(store') = Len(store) + 1
          /\ store'[Len(store')].node = lastOp'.node
          /\ LatestNext(store') = "generate"
          /\ LatestValues(store')["content"]
                = ContentBefore(lastOp'.node, LatestValues(store))
                    \o Kept_Results(FirstOf(lastOp'.responses,
                                             SearchLimit(lastOp'.node)))]_vars

\* a research node ran with a search that raised and another that found
\* sources, and the thread stands before generate with these sources
C32_Witness ==
    /\ lastOp.op = "step"
    /\ lastOp.node = "travel_critique"
    /\ lastOp.status = "ok"
    /\ Len(lastOp.responses) >= 2
    /\ lastOp.responses[1].raised
    /\ ~lastOp.responses[2].raised
    /\ lastOp.responses[2].results = <<"src", "more">>
    /\ store[Len(store)].node = "travel_critique"
    /\ LatestNext(store) = "generate"
    /\ Len(LatestValues(store)["content"]) >= 2

(* ------------------------------------------------------------------ *)
(* One call, many nodes                                                 *)
(* ------------------------------------------------------------------ *)

\* the thread was only driven by run and resume calls: every checkpoint
\* follows the one before it, none was written by an update, and every
\* input is the one a run creates
Driven(st) ==
    \A i \in 1..Len(st) :
        /\ st[i].parent = i - 1
        /\ st[i].source # "update"
        /\ st[i].source = "input" => DOMAIN st[i].writes = DOMAIN trip_input("")

\* the thread was started once and only driven on
Straight(st) ==
    /\ Driven(st)
    /\ \A i \in 1..Len(st) : st[i].source = "input" => i = 1

\* the nodes of the checkpoints of st, in order
NodesOf(st) == [i \in 1..Len(st) |-> st[i].node]

\* a call that drives the thread: a run, or a resume that approves, which
\* is not refused and in which no step raises
Drives ==
    /\ lastOp'.op \in {"run", "resume"}
    /\ lastOp'.op = "resume" => lastOp'.approved
    /\ ~lastOp'.error
    /\ lastOp'.status # "error"

\* with HITL and max_revisions = 2, a driving call on a thread that waits
\* before planner executes planner and travel_plan and stops before
\* generate; before generate, it executes generate and stops before reflect
\* after the first pass and at the end after the second; before reflect, it
\* executes reflect and travel_critique and stops before generate; at the
\* end, it does nothing
NextPause ==
    IF LatestNext(store) = "planner"
    THEN /\ lastOp'.executed = <<"planner", "travel_plan">>
         /\ LatestNext(store') = "generate"
    ELSE IF LatestNext(store) = "generate"
    THEN /\ lastOp'.executed = <<"generate">>
         /\ LatestNext(store')
              = (IF Passes(store, Len(store)) = 0 THEN "reflect" ELSE END)
    ELSE IF LatestNext(store) = "reflect"
    THEN /\ lastOp'.executed = <<"reflect", "travel_critique">>
         /\ LatestNext(store') = "generate"
         /\ Passes(store, Len(store)) = 1
    ELSE store' = store

\* a driving call leaves the thread before an interrupt node of the graph in
\* use or at the end, having executed no interrupt node but the pending one
StopsAtInterrupt ==
    /\ LatestNext(store') \in InterruptBefore \cup {END}
    /\ ~lastOp'.hitl => LatestNext(store') = END
    /\ \A k \in Later(lastOp'.executed) :
          lastOp'.hitl => lastOp'.executed[k] \notin InterruptBefore

\* C33: a run or resume call in which no step raises drives the thread to
\* the next interrupt node or to the end.  With HITL and max_revisions = 2
\* the run on a new thread executes no node and stops before planner, and
\* each call after it takes the thread to the next pause: before generate
\* (after planner and travel_plan), before reflect, before generate again
\* (after reflect and travel_critique), and to the end.
C33_RunsToNextInterrupt ==
    [][Drives
       => /\ StopsAtInterrupt
          /\ (lastOp'.hitl /\ Driven(store) /\ InitialMaxRevisions = 2)
                => IF store = <<>>
                   THEN /\ lastOp'.executed = <<>>
                        /\ LatestNext(store') = "planner"
                   ELSE NextPause]_vars

\* C33 for the calls that continue the thread (every resume, and a run on a
\* thread whose stored task is not empty): the sequence of pauses is the
\* one C33 states.
C33_ContinuingCalls ==
    [][Drives
       => /\ StopsAtInterrupt
          /\ (lastOp'.hitl /\ Straight(store') /\ InitialMaxRevisions = 2)
                => IF store = <<>>
                   THEN /\ lastOp'.executed = <<>>
                        /\ LatestNext(store') = "planner"
                   ELSE NextPause]_vars

\* a thread driven with HITL from its start to the end: it went through
\* planner, travel_plan, generate, reflect, travel_critique and generate, the
\* last call having executed the second generate only
C33_Completed ==
    /\ Straight(store)
    /\ InitialMaxRevisions = 2
    /\ NodesOf(store) = <<START, START, "planner", "travel_plan", "generate",
                          "reflect", "travel_critique", "generate">>
    /\ LatestNext(store) = END
    /\ lastOp.op = "resume"
    /\ lastOp.hitl
    /\ lastOp.approved
    /\ lastOp.executed = <<"generate">>

(* ------------------------------------------------------------------ *)
(* Termination of the revision loop                                     *)
(* ------------------------------------------------------------------ *)

\* C34: when every step succeeds and every pause is eventually approved, a
\* thread that was started eventually reaches the end, whatever
\* max_revisions is, and a run call on a thread at the end leaves it at the
\* end.
C34_TerminatesAndStays ==
    /\ (store # <<>>) ~> Terminal(store)
    /\ [][(Terminal(store) /\ lastOp'.op = "run") => LatestNext(store') = END]_vars

\* C34, the first half: a thread that was started eventually reaches the
\* end, whatever max_revisions is.
C34_Terminates == (store # <<>>) ~> Terminal(store)

(* ------------------------------------------------------------------ *)
(* The cycle of the agent graph                                         *)
(* ------------------------------------------------------------------ *)

\* the last message of the agent thread
LastMessage(st) == AgentMessages(st)[Len(AgentMessages(st))]

\* a step of the given node wrote its checkpoint
Stepped(node) ==
    /\ Len(store') = Len(store) + 1
    /\ store'[Len(store')].node = node

\* C35: in the agent graph the tools node is pending, and runs, only when
\* the last message carries at least one tool call; its step appends one
\* tool message per tool call, in the order of the calls and with the id of
\* the call as tool_call_id, and nothing else, and the thread then stands
\* before agent; after a step of agent whose message carries no tool call
\* the thread is at the end, and it goes to tools otherwise.
C35_ToolsCycle ==
    [][/\ LatestNext(store') = "tools" => CarriesToolCalls(LastMessage(store'))
       /\ (Running /\ LatestNext(store) = "tools"
              /\ (~lastOp.hitl \/ lastOp.resuming))
          => /\ Stepped("tools")
             /\ lastOp'.status = "running"
       /\ Stepped("tools")
          => /\ LatestNext(store) = "tools"
             /\ CarriesToolCalls(LastMessage(store))
             /\ LatestNext(store') = "agent"
             /\ Len(AgentMessages(store'))
                   = Len(AgentMessages(store))
                        + Len(LastMessage(store).tool_calls)
             /\ SubSeq(AgentMessages(store'), 1, Len(AgentMessages(store)))
                   = AgentMessages(store)
             /\ \A i \in 1..Len(LastMessage(store).tool_calls) :
                   LET message ==
                           AgentMessages(store')[Len(AgentMessages(store)) + i]
                   IN /\ message.type = "tool"
                      /\ message.tool_call_id
                            = LastMessage(store).tool_calls[i].id
       /\ Stepped("agent")
          => LatestNext(store')
                = IF CarriesToolCalls(LastMessage(store'))
                  THEN "tools" ELSE END]_vars

\* the tools node answered the tool call of the last message and the agent
\* node, run again, answered with no tool call: the thread is at the end
C35_Witness ==
    /\ Len(store) > 2
    /\ store[Len(store)].node = "agent"
    /\ store[Len(store) - 1].node = "tools"
    /\ LatestNext(store) = END
    /\ ~CarriesToolCalls(LastMessage(store))
    /\ AgentMessages(store)[Len(AgentMessages(store)) - 1].type = "tool"
    /\ CarriesToolCalls(AgentMessages(store)[Len(AgentMessages(store)) - 2])
    /\ AgentMessages(store)[Len(AgentMessages(store)) - 1].tool_call_id
          = AgentMessages(store)[Len(AgentMessages(store)) - 2].tool_calls[1].id

(* ------------------------------------------------------------------ *)
(* The events of a streamed execution                                   *)
(* ------------------------------------------------------------------ *)

FinalEvents == {"interrupt", "complete", "error"}

\* the event that ends a stream matches the execution and the thread's
\* position after it
FinalEventMatches(event) ==
    /\ event = "error" <=> lastOp'.error
    /\ event = "interrupt" => LatestNext(store') # END
    /\ event = "complete" => LatestNext(store') = END

\* a turn of event_generator of stream_agent yields a node event and the
\* stream stays open, or it yields the final event and the stream is over
StreamTurn ==
    lastOp'.op = "stream"
    => /\ lastOp'.status \in FinalEvents \cup {"node"}
       /\ lastOp'.status = "node" <=> stream'.active
       /\ lastOp'.status = "node" => Len(lastOp'.executed) = 1 /\ ~lastOp'.error
       /\ lastOp'.status \in FinalEvents => FinalEventMatches(lastOp'.status)

\* the events of execute_with_streaming are node events followed by one
\* final event
RunnerEndsWithFinalEvent ==
    LET events == lastOp'.events
    IN /\ events # <<>>
       /\ events[Len(events)] \in FinalEvents
       /\ \A i \in 1..(Len(events) - 1) : events[i] = "node"
       /\ FinalEventMatches(events[Len(events)])

\* C36, as stated: every streamed execution, by stream_agent or by
\* GraphRunner.execute_with_streaming, ends with exactly one final event
\* after all node events: interrupt if the thread's next is not empty after
\* the run, complete if it is empty, error if the execution raised; no node
\* event follows the final event.
C36_OneFinalEvent ==
    [][/\ StreamTurn
       /\ lastOp'.op = "execute_with_streaming" => RunnerEndsWithFinalEvent]_vars

\* C36, amended: a stream of stream_agent ends with exactly one final event
\* after all node events, interrupt if the thread's next is not empty after
\* the run, complete if it is empty, error if the execution raised, and no
\* node event follows it; execute_with_streaming ends with interrupt or
\* complete in the same way when the execution returns, and when the
\* execution raises it yields the node events of the steps that returned and
\* no final event: the exception reaches its caller.
C36_FinalEventUnlessRunnerRaises ==
    [][/\ StreamTurn
       /\ (lastOp'.op = "execute_with_streaming" /\ ~lastOp'.error)
          => /\ RunnerEndsWithFinalEvent
             /\ lastOp'.events[Len(lastOp'.events)] # "error"
       /\ (lastOp'.op = "execute_with_streaming" /\ lastOp'.error)
          => /\ \A i \in 1..Len(lastOp'.events) : lastOp'.events[i] = "node"
             /\ lastOp'.status = "raised"]_vars

\* a stream of stream_agent on the graph with interrupts yielded the events
\* of planner and travel_plan and ended with interrupt before generate
C36_Witness ==
    /\ lastOp.op = "stream"
    /\ lastOp.status = "interrupt"
    /\ lastOp.hitl
    /\ ~lastOp.resuming
    /\ ~stream.active
    /\ store # <<>>
    /\ store[Len(store)].node = "travel_plan"
    /\ LatestNext(store) = "generate"

(* ------------------------------------------------------------------ *)
(* A run on a thread that has checkpoints                               *)
(* ------------------------------------------------------------------ *)

\* the checkpoints the last handler appended
Appended == (Len(store) + 1)..Len(store')

\* C37: a run on a thread that already has a checkpoint continues from that
\* checkpoint with no new input, whatever the message and whatever the
\* stored task, the empty string included: it records no input, so no
\* second initial human message is appended, and task, plan, draft,
\* revision_number and count are changed by the nodes it executes only.
C37_RunContinuesThread ==
    [][(lastOp'.op = "run" /\ store # <<>>)
       => /\ lastOp'.resuming
          /\ \A i \in Appended :
                /\ store'[i].source = "loop"
                /\ store'[i].node # START
          /\ lastOp'.executed = <<>>
             => \A f \in {"task", "plan", "draft", "revision_number", "count",
                          "messages"} :
                   Get(LatestValues(store'), f, None)
                      = Get(LatestValues(store), f, None)]_vars

(* ------------------------------------------------------------------ *)
(* Parameter updates are all or nothing                                 *)
(* ------------------------------------------------------------------ *)

\* the value supplied for a parameter is valid: a temperature within
\* [0.0, 1.0], a max_tokens of at least 1
ValidTemperature(x) ==
    /\ float(x).ok
    /\ 0 <= float(x).value.n
    /\ float(x).value.n <= float(x).value.d

ValidTokens(x) == int(x).ok /\ int(x).value.n >= 1

ValidBody(body) ==
    /\ DOMAIN body # {}
    /\ Has(body, "temperature") => ValidTemperature(body["temperature"])
    /\ Has(body, "max_tokens") => ValidTokens(body["max_tokens"])

\* the value a valid parameter is stored as
Stored(body, f) ==
    IF f = "temperature" THEN float(body[f]).value ELSE int(body[f]).value

\* C40: update_parameters is all or nothing.  When a supplied parameter is
\* invalid (a temperature outside [0.0, 1.0], a max_tokens below 1, a value
\* that is no number) or none is supplied, the request is answered with an
\* error, the checkpoints of the thread are what they were: no field
\* changes and no checkpoint is appended.  Otherwise one checkpoint is
\* appended in which the supplied parameters have the values sent and every
\* other field has the value it had.
C40_ParametersAllOrNothing ==
    [][lastOp'.op = "update_parameters"
       => IF ValidBody(lastOp'.body)
          THEN /\ lastOp'.status = "updated"
               /\ Len(store') = Len(store) + 1
               /\ SubSeq(store', 1, Len(store)) = store
               /\ DOMAIN LatestValues(store')
                     = DOMAIN LatestValues(store) \cup DOMAIN lastOp'.body
                          \cup DOMAIN EmptyChannels
               /\ \A f \in DOMAIN LatestValues(store') :
                     LatestValues(store')[f]
                        = IF f \in DOMAIN lastOp'.body
                          THEN Stored(lastOp'.body, f)
                          ELSE IF Has(LatestValues(store), f)
                          THEN LatestValues(store)[f]
                          ELSE EmptyChannels[f]
          ELSE /\ lastOp'.status \in {"bad_request", "error"}
               /\ store' = store]_vars

\* a request with a valid temperature and an invalid max_tokens was refused
\* on a thread that has run
C40_Witness ==
    /\ lastOp.op = "update_parameters"
    /\ lastOp.status = "bad_request"
    /\ DOMAIN lastOp.body = {"temperature", "max_tokens"}
    /\ ValidTemperature(lastOp.body["temperature"])
    /\ ~ValidTokens(lastOp.body["max_tokens"])
    /\ Len(store) > 2
    /\ ~Has(LatestValues(store), "temperature")

(* ------------------------------------------------------------------ *)
(* count along a checkpoint chain                                       *)
(* ------------------------------------------------------------------ *)

\* the values of the parent of checkpoint c; a root has the empty channels
ParentValues(st, c) == IF c.parent = 0 THEN EmptyChannels ELSE st[c.parent].values

\* checkpoint c was written by the step of a node
IsNodeStep(c) == c.source = "loop" /\ c.node # START

\* count in checkpoint c is that of its parent, plus one if c was written
\* by the step of a node
CountsItsStep(st, c) ==
    Get(c.values, "count", 0)
       = Get(ParentValues(st, c), "count", 0) + (IF IsNodeStep(c) THEN 1 ELSE 0)

\* C38: count in every checkpoint is the number of node steps executed on
\* the chain from the root to it, under run, resume, prompt update and
\* parameter update requests in any order: every checkpoint one of them
\* appends has the count of its parent, plus one if a node step wrote it.
C38_CountIsStepsOnChain ==
    [][lastOp'.op \in {"run", "resume", "update_prompt", "update_parameters"}
       => \A i \in Appended : CountsItsStep(store', store'[i])]_vars

\* the same, of the requests that are not prompt updates
C38_CountUnlessPromptUpdate ==
    [][lastOp'.op \in {"run", "resume", "update_parameters"}
       => \A i \in Appended : CountsItsStep(store', store'[i])]_vars

(* ------------------------------------------------------------------ *)
(* The message log along a checkpoint chain                             *)
(* ------------------------------------------------------------------ *)

MessagesOf(values) == Get(values, "messages", <<>>)

IsPrefix(a, b) == Len(a) <= Len(b) /\ SubSeq(b, 1, Len(a)) = a

\* the messages of the parent of checkpoint c start those of c, and the
\* step of a node adds one message, the one the node returns
AppendsToLog(st, c) ==
    /\ IsPrefix(MessagesOf(ParentValues(st, c)), MessagesOf(c.values))
    /\ IsNodeStep(c)
       => /\ Len(c.writes["messages"]) = 1
          /\ MessagesOf(c.values)
                = MessagesOf(ParentValues(st, c)) \o c.writes["messages"]

\* C39: the message log is append-only along a checkpoint chain: in every
\* checkpoint, written by the step of a node, by a resume that approves or
\* rejects or by an edit of the state, the messages of the parent are a
\* prefix of the messages, and the step of a node adds exactly one message,
\* its status message.
C39_MessagesAppendOnly ==
    \A i \in 1..Len(store) : AppendsToLog(store, store[i])

\* a thread on which a node step followed a rejection or an edit that
\* added a message to the messages of a node
C39_Witness ==
    \E i, j \in 1..Len(store) :
        /\ i < j
        /\ store[i].source = "update"
        /\ MessagesOf(ParentValues(store, store[i])) # <<>>
        /\ Len(MessagesOf(store[i].values))
              > Len(MessagesOf(ParentValues(store, store[i])))
        /\ store[j].parent = j - 1
        /\ IsNodeStep(store[j])

====
